---- MODULE Spec2Model ----
(***************************************************************************)
(* A model of the GameRoom durable object of src/worker.js (lines 3-852):  *)
(* the room record held in memory (this.room), its persisted copy          *)
(* (storage key 'room'), the wall clock, and one action per request        *)
(* handler.  Timestamps and durations are milliseconds, as in the source.  *)
(***************************************************************************)
EXTENDS Integers, Sequences, FiniteSets, TLC

(* ------------------------------------------------------------------ *)
(* Bounds of the model                                                 *)
(* ------------------------------------------------------------------ *)

\* The wall clock advances at most this many ticks of TickMs.
MaxTicks == 1

\* The same, in the specification that starts at the color pick.
MaxLateTicks == 4

\* The same, in the specification in which no bid is ever submitted (eight
\* ticks are longer than the five minutes after which a room is too old).
MaxWaitTicks == 8

\* The length of the one long pause of the specification with an idle room
\* (longer than the five minutes after which a room is too old).
IdleMs == 350000

\* The players that use the queues.
MatchPlayers == {"p1", "p2", "p3"}

\* The time controls whose buckets are modelled, in the key order of the
\* 'queues' object (the first two of TIME_CONTROLS).
TimeControls == <<300000, 600000>>

\* The grain of the wall clock in the matchmaking specification, and how
\* many such ticks pass.
MatchTickMs == 350000
MaxMatchTicks == 1

\* The grain of the wall clock in the specification of the RoomIndex
\* object alone (shorter than the five minutes after which a queue entry is
\* stale), and how many such ticks pass.
IndexTickMs == 200000
MaxIndexTicks == 2

\* At most this many rooms are created by matchmaking.
MaxMatchRooms == 2

\* At most this many moves are committed to room.moves.
MaxMoves == 2

\* At most this many games are played in the room (rematches + 1).
MaxGames == 2

\* The grain of the wall clock.
TickMs == 50000

\* Date.now() when the object is constructed (positive, as every real one).
StartNow == TickMs

\* Player ids that requests carry.
Players == {"p1", "p2"}

\* mainTimeMs values a POST /rooms body carries.
MainTimeMsInputs == {150000}

\* Bid amounts a submitBid body carries (one of them above every mainTimeMs
\* input, so that invalid_bid_amount happens).
BidAmounts == {0, 50000, 200000}

(* ------------------------------------------------------------------ *)
(* Values                                                              *)
(* ------------------------------------------------------------------ *)

\* JS null for an id field.
NoPlayer == "null"

\* JS undefined as an id: players.map(p => p.id)[i] past the end of players.
Undef == "undefined"

\* JS null for a timestamp or a duration: falsy, like 0.
NoTime == 0

\* JS null for winningBidMs / losingBidMs (0 is a valid bid amount).
NoAmount == -1

\* roomId of the default state, and the one the Router passes to init.
NoRoomId == "null"
TheRoomId == "room-1"

\* An object with no keys: {}.
EmptyMap == [x \in {} |-> 0]

\* rematchVotes = null (distinct from {}).
NullVotes == [x \in {"null"} |-> FALSE]

\* room.clocks = null.
NoClocks ==
  [present |-> FALSE, whiteRemainingMs |-> 0, blackRemainingMs |-> 0,
   lastTickAt |-> NoTime, turn |-> "white", frozenAt |-> NoTime]

\* room.gameFen unset: new Chess(undefined) is the initial position.
NoFen == [present |-> FALSE, toMove |-> "white", over |-> FALSE]

OtherColor(c) == IF c = "white" THEN "black" ELSE "white"

(* ------------------------------------------------------------------ *)
(* Program constants                                                   *)
(* ------------------------------------------------------------------ *)

DefaultMaxPlayers == 2
DefaultBidDurationMs == 10000
DefaultChoiceDurationMs == 10000
DefaultMainTimeMs == 300000
DefaultDisconnectTimeoutMs == 45000
RoomTooOldMs == 300000
DisconnectDetectMs == 10000
StartExpiredRemoveMs == 600000
MaxChoiceAttempts == 4
RematchWindowNoMateMs == 10000
RematchWindowMs == 15000

\* GameRoom._defaultState, with the fields later handlers add (undefined in
\* the source until first assigned) at their falsy values.
DefaultState(t) ==
  [roomId |-> NoRoomId,
   phase |-> "LOBBY",
   players |-> <<>>,
   maxPlayers |-> DefaultMaxPlayers,
   bids |-> EmptyMap,
   bidDeadline |-> NoTime,
   choiceDeadline |-> NoTime,
   winnerId |-> NoPlayer,
   loserId |-> NoPlayer,
   winningBidMs |-> NoAmount,
   losingBidMs |-> NoAmount,
   drawOddsSide |-> NoPlayer,
   colors |-> <<>>,
   clocks |-> NoClocks,
   moves |-> <<>>,
   choiceAttempts |-> 0,
   currentPicker |-> "null",
   createdAt |-> t,
   updatedAt |-> t,
   bidDurationMs |-> DefaultBidDurationMs,
   choiceDurationMs |-> DefaultChoiceDurationMs,
   mainTimeMs |-> DefaultMainTimeMs,
   closed |-> FALSE,
   closeReason |-> "null",
   closedAt |-> NoTime,
   disconnectedPlayerId |-> NoPlayer,
   disconnectStart |-> NoTime,
   disconnectTimeoutMs |-> DefaultDisconnectTimeoutMs,
   startRequestedBy |-> NoPlayer,
   startConfirmDeadline |-> NoTime,
   gameFen |-> NoFen,
   rematchWindowEnds |-> NoTime,
   rematchVotes |-> NullVotes,
   removedAt |-> NoTime]

VARIABLES
  room,     \* this.room, the in-memory record
  stored,   \* the record under storage key 'room' ([exists, rec])
  now,      \* Date.now()
  last,     \* the last request that changed room or stored, and its reply
  games,    \* how many games the room has started (bounds the model)
  clockStart, \* Date.now() of the chooseColor that started the clocks
  index,    \* RoomIndex: this room's entry under 'rooms' and the 'queues'
            \* bucket of the room's mainTimeMs
  queues,   \* RoomIndex storage 'queues': time control -> waiting players
  rooms,    \* RoomIndex storage 'rooms': the directory, in insertion order
  flows,    \* Router: each caller's /queue/join request in flight
  gameRooms, \* the GameRoom objects that matchmaking has created
  anchors   \* RoomIndex storage 'estimate_anchor_<timeKey>'

\* The variables of one room, and those of matchmaking.
roomVars == <<room, stored, last, games, clockStart, index>>
matchVars == <<queues, rooms, flows, gameRooms, anchors>>

vars == <<room, stored, now, last, games, clockStart, index,
          queues, rooms, flows, gameRooms, anchors>>

(* ------------------------------------------------------------------ *)
(* Helpers                                                             *)
(* ------------------------------------------------------------------ *)

\* this.room.players.map(p => p.id) as a set.
PlayerIds(r) == {r.players[i] : i \in 1..Len(r.players)}

\* Destructuring [p1, p2] = players.map(p => p.id): undefined past the end.
PlayerAt(r, i) == IF i <= Len(r.players) THEN r.players[i] ELSE Undef

\* Array.prototype.filter on a sequence of ids.
RECURSIVE Without(_, _)
Without(s, id) ==
  IF s = <<>> THEN <<>>
  ELSE IF Head(s) = id THEN Without(Tail(s), id)
       ELSE <<Head(s)>> \o Without(Tail(s), id)

\* players.find(p => p.id !== playerId)?.id || null
RECURSIVE FirstOther(_, _)
FirstOther(s, id) ==
  IF s = <<>> THEN NoPlayer
  ELSE IF Head(s) /= id THEN Head(s) ELSE FirstOther(Tail(s), id)

\* room.colors is an object whose keys keep insertion order: a sequence of
\* [id, color].  Object.keys(colors):
ColorKeys(cs) == [i \in 1..Len(cs) |-> cs[i].id]

\* colors[id], "none" when the key is absent (undefined).
ColorOf(cs, id) ==
  IF \E i \in 1..Len(cs) : cs[i].id = id
  THEN (CHOOSE e \in {cs[i] : i \in 1..Len(cs)} : e.id = id).color
  ELSE "none"

\* Object.keys(colors).find(id => colors[id] === c) || null
RECURSIVE KeyWithColor(_, _)
KeyWithColor(cs, c) ==
  IF cs = <<>> THEN NoPlayer
  ELSE IF Head(cs).color = c THEN Head(cs).id ELSE KeyWithColor(Tail(cs), c)

\* obj[key] = value on a map.
Put(m, k, v) == [x \in (DOMAIN m) \cup {k} |-> IF x = k THEN v ELSE m[x]]

\* What a handler leaves behind: the in-memory room, the stored record,
\* the reply's result or error code, and which branch a lazy driver
\* (_resolveBidsIfNeeded, _resolveChoiceIfNeeded) took during the request.
\* calls are the requests the handler sent to the RoomIndex, in order.
Out(r, s, res) ==
  [room |-> r, stored |-> s, res |-> res, drive |-> "none", calls |-> <<>>]

\* The same reply, with the lazy driver's branch noted.
Driven(o, res, drive) ==
  [room |-> o.room, stored |-> o.stored, res |-> res, drive |-> drive,
   calls |-> o.calls]

\* Requests to the RoomIndex: POST /update (the meta of _indexUpdate, or
\* the body getState sends), POST /remove, POST /addToQueue.
UpdateCall(phase) == [call |-> "update", phase |-> phase, playerId |-> NoPlayer]
RemoveCall == [call |-> "remove", phase |-> "none", playerId |-> NoPlayer]
AddToQueueCall(id) == [call |-> "addToQueue", phase |-> "none", playerId |-> id]

\* o2 happened after o1 in the same request.
After(o1, o2) == [o2 EXCEPT !.calls = o1.calls \o @]

\* o, followed by more calls to the RoomIndex.
Calling(o, calls) == [o EXCEPT !.calls = @ \o calls]

\* GameRoom._save: stamp updatedAt and put the record.
Save(r, t) == [r EXCEPT !.updatedAt = t]
\* GameRoom._indexUpdate: a closed room sends nothing.
IndexUpdate(r) == IF r.closed THEN <<>> ELSE <<UpdateCall(r.phase)>>

Saved(r, t, res) ==
  Calling(Out(Save(r, t), [exists |-> TRUE, rec |-> Save(r, t)], res),
          IndexUpdate(r))

\* RoomIndex has no entry for the room and nobody queued.
EmptyIndex == [listed |-> FALSE, phase |-> "none", queue |-> <<>>]

\* RoomIndex._cleanupStaleQueues on one bucket.
QueueStaleMs == 300000
RECURSIVE CleanupStale(_, _)
CleanupStale(q, t) ==
  IF q = <<>> THEN <<>>
  ELSE IF (t - Head(q).lastHeartbeat) < QueueStaleMs
       THEN <<Head(q)>> \o CleanupStale(Tail(q), t)
       ELSE CleanupStale(Tail(q), t)

\* queues[timeKey].some(p => p.playerId === playerId)
InBucket(q, id) == \E i \in 1..Len(q) : q[i].playerId = id

\* The index of queues[timeKey].find(p => p.playerId === playerId).
FirstIndexOf(q, id) ==
  CHOOSE i \in 1..Len(q) :
    q[i].playerId = id /\ \A j \in 1..(i - 1) : q[j].playerId /= id

\* A push that does not look for the player in the bucket first.
Enqueue_AlwaysPush(q, id, t) ==
  Append(q, [playerId |-> id, joinedAt |-> t, lastHeartbeat |-> t])

\* Lines 1139-1147: a new player is pushed at the end of the bucket, a
\* player already in it has lastHeartbeat refreshed.
Enqueue(q, id, t) ==
  IF InBucket(q, id)
  THEN [q EXCEPT ![FirstIndexOf(q, id)].lastHeartbeat = t]
  ELSE Append(q, [playerId |-> id, joinedAt |-> t, lastHeartbeat |-> t])

\* RoomIndex.fetch on /addToQueue, for the bucket of the room's mainTimeMs.
AddToQueue(q, id, t) == CleanupStale(Enqueue(q, id, t), t)

\* RoomIndex.fetch on /update, /remove and /addToQueue, call after call.
RECURSIVE IndexAfter(_, _, _)
IndexAfter(idx, calls, t) ==
  IF calls = <<>> THEN idx
  ELSE
    LET c == Head(calls)
        next == IF c.call = "update"
                THEN [idx EXCEPT !.listed = TRUE, !.phase = c.phase]
                ELSE IF c.call = "remove"
                THEN [idx EXCEPT !.listed = FALSE, !.phase = "none"]
                ELSE [idx EXCEPT !.queue = AddToQueue(@, c.playerId, t)]
    IN IndexAfter(next, Tail(calls), t)

\* The ids in a queue bucket.
Queued(idx) == {idx.queue[i].playerId : i \in 1..Len(idx.queue)}

(* ------------------------------------------------------------------ *)
(* Matchmaking: the queues and directory of RoomIndex, the Router's     *)
(* queue flows                                                          *)
(* ------------------------------------------------------------------ *)

\* No room id.
NoRoom == 0

\* A caller with no /queue/join in flight.
IdleFlow ==
  [stage |-> "idle", mainTimeMs |-> 0, queuedPlayers |-> <<>>,
   roomId |-> NoRoom]

\* No anchor stored for a time control.
NoAnchor == [gameId |-> NoRoom, startTime |-> NoTime, durationMs |-> 0]

\* The buckets, by time control.
TimeControlSet == {TimeControls[k] : k \in 1..Len(TimeControls)}

\* Before any queue request: no bucket, no directory entry, no flow.
MatchIdle ==
  /\ queues = [tc \in TimeControlSet |-> <<>>]
  /\ rooms = <<>>
  /\ flows = [p \in MatchPlayers |-> IdleFlow]
  /\ gameRooms = <<>>
  /\ anchors = [tc \in TimeControlSet |-> NoAnchor]

\* RoomIndex._cleanupStaleQueues: every bucket is filtered.
CleanupStaleQueues(qs, t) == [tc \in DOMAIN qs |-> CleanupStale(qs[tc], t)]

\* RoomIndex.fetch on /addToQueue: the queues it leaves in storage.
IndexAddToQueue(qs, id, tc, t) ==
  CleanupStaleQueues([qs EXCEPT ![tc] = Enqueue(@, id, t)], t)

\* A directive that names the two players who joined last.
Directive_LastTwo(qs, tc) ==
  IF Len(qs[tc]) >= 2
  THEN <<qs[tc][Len(qs[tc]) - 1].playerId, qs[tc][Len(qs[tc])].playerId>>
  ELSE <<>>

\* Lines 1161-1168: with two or more players in the bucket the reply is
\* shouldCreateRoom with queues[timeKey].slice(0, 2).
Directive(qs, tc) ==
  IF Len(qs[tc]) >= 2
  THEN <<qs[tc][1].playerId, qs[tc][2].playerId>>
  ELSE <<>>

\* RoomIndex.fetch on /joinAll: the player is put in every bucket, then the
\* stale entries are cleaned.
IndexJoinAll(qs, id, t) ==
  CleanupStaleQueues([tc \in DOMAIN qs |-> Enqueue(qs[tc], id, t)], t)

\* RoomIndex.fetch on /heartbeat: the loop over the buckets, in key order,
\* refreshes the player in the first bucket that holds it and breaks.
RECURSIVE HeartbeatFrom(_, _, _, _)
HeartbeatFrom(qs, k, id, t) ==
  IF k > Len(TimeControls) THEN qs
  ELSE IF InBucket(qs[TimeControls[k]], id)
       THEN LET q == qs[TimeControls[k]]
            IN [qs EXCEPT ![TimeControls[k]] =
                  [q EXCEPT ![FirstIndexOf(q, id)].lastHeartbeat = t]]
       ELSE HeartbeatFrom(qs, k + 1, id, t)

IndexHeartbeat(qs, id, t) == HeartbeatFrom(qs, 1, id, t)

\* queues[timeKey].filter(p => !playerIds.includes(p.playerId))
RECURSIVE WithoutPlayers(_, _)
WithoutPlayers(q, ids) ==
  IF q = <<>> THEN <<>>
  ELSE IF Head(q).playerId \in ids THEN WithoutPlayers(Tail(q), ids)
       ELSE <<Head(q)>> \o WithoutPlayers(Tail(q), ids)

\* RoomIndex.fetch on /removeFromAllQueues
RemoveFromAllQueues(qs, ids) ==
  [tc \in DOMAIN qs |-> WithoutPlayers(qs[tc], ids)]

\* The ids of a sequence of ids.
IdsOf(ps) == {ps[i] : i \in 1..Len(ps)}

\* RoomIndex.fetch on /update: rooms[roomId] is replaced in place or added
\* at the end.
IndexUpdateRoom(rs, roomId, phase, players) ==
  LET e == [roomId |-> roomId, phase |-> phase, players |-> players]
  IN IF \E i \in 1..Len(rs) : rs[i].roomId = roomId
     THEN [i \in 1..Len(rs) |-> IF rs[i].roomId = roomId THEN e ELSE rs[i]]
     ELSE Append(rs, e)

\* RoomIndex.fetch on /remove: delete rooms[roomId]
RECURSIVE IndexRemoveRoom(_, _)
IndexRemoveRoom(rs, roomId) ==
  IF rs = <<>> THEN <<>>
  ELSE IF Head(rs).roomId = roomId THEN IndexRemoveRoom(Tail(rs), roomId)
       ELSE <<Head(rs)>> \o IndexRemoveRoom(Tail(rs), roomId)

\* RoomIndex.fetch on /checkMatch: the first directory entry whose players
\* hold the id answers matched; otherwise whether the id is in a bucket.
IndexCheckMatch(rs, qs, id) ==
  IF \E i \in 1..Len(rs) : id \in IdsOf(rs[i].players)
  THEN LET i == CHOOSE i \in 1..Len(rs) :
                  /\ id \in IdsOf(rs[i].players)
                  /\ \A j \in 1..(i - 1) : id \notin IdsOf(rs[j].players)
       IN [matched |-> TRUE, roomId |-> rs[i].roomId, inQueue |-> FALSE]
  ELSE [matched |-> FALSE, roomId |-> NoRoom,
        inQueue |-> \E tc \in DOMAIN qs : InBucket(qs[tc], id)]

\* A handler's effect on the state.  A request that changes neither the
\* room, nor its stored record, nor the index is a stuttering step.
Apply(op, by, arg, out) ==
  /\ room' = out.room
  /\ stored' = out.stored
  /\ index' = IndexAfter(index, out.calls, now)
  /\ last' = IF out.room = room /\ out.stored = stored /\ index' = index
             THEN last
             ELSE [op |-> op, by |-> by, arg |-> arg, res |-> out.res,
                   drive |-> out.drive]
  /\ games' = IF room.phase /= "PLAYING" /\ out.room.phase = "PLAYING"
              THEN games + 1 ELSE games
  /\ clockStart' = IF room.phase /= "PLAYING" /\ out.room.phase = "PLAYING"
                   THEN now ELSE clockStart
  /\ UNCHANGED now
  /\ UNCHANGED matchVars

(* ------------------------------------------------------------------ *)
(* Lobby: init, join, leave, heartbeat, startBidding                   *)
(* ------------------------------------------------------------------ *)

\* The init bodies the Router sends: POST /rooms (no players) and the
\* queue-join flow (queuedPlayers, no creator).
\* body.creatorPlayerId of an initRoom body: absent, or the id of a creator
\* (who sends no request of its own afterwards).
CreatorIds == {NoPlayer, "p3"}

InitBodies ==
  {[mainTimeMs |-> m, creatorPlayerId |-> c, queuedPlayers |-> q] :
     m \in MainTimeMsInputs, c \in CreatorIds, q \in {<<>>, <<"p1", "p2">>}}

\* The for-loop of _handleInit over body.queuedPlayers.
RECURSIVE PushQueued(_, _)
PushQueued(ps, q) ==
  IF q = <<>> THEN ps
  ELSE PushQueued(IF \E i \in 1..Len(ps) : ps[i] = Head(q) THEN ps
                  ELSE Append(ps, Head(q)), Tail(q))

\* GameRoom._handleInit
HandleInit(r, s, t, body) ==
  IF r.roomId /= NoRoomId THEN Out(r, s, "already_initialized")
  ELSE
    LET r1 == [r EXCEPT !.roomId = TheRoomId,
                        !.maxPlayers = DefaultMaxPlayers,
                        !.mainTimeMs = body.mainTimeMs,
                        !.createdAt = t,
                        !.phase = "LOBBY"]
        r2 == IF body.creatorPlayerId /= NoPlayer
              THEN [r1 EXCEPT !.players = Append(@, body.creatorPlayerId)]
              ELSE r1
        r3 == [r2 EXCEPT !.players = PushQueued(@, body.queuedPlayers)]
    IN Saved(r3, t, "ok")

\* GameRoom._handleJoin
HandleJoin(r, s, t, playerId) ==
  IF r.updatedAt /= NoTime /\ (t - r.updatedAt) > RoomTooOldMs
  THEN After(Calling(Out(r, s, "ok"), <<RemoveCall>>),
             Saved([r EXCEPT !.removedAt = t], t, "room_too_old"))
  ELSE IF r.closed THEN Out(r, s, "room_closed")
  ELSE IF r.phase /= "LOBBY" THEN Out(r, s, "not_in_lobby")
  ELSE IF playerId \in PlayerIds(r) THEN Out(r, s, "ok")
  ELSE IF Len(r.players) >= r.maxPlayers THEN Out(r, s, "room_full")
  ELSE Saved([r EXCEPT !.players = Append(@, playerId)], t, "ok")

\* GameRoom._handleLeave
HandleLeave(r, s, t, playerId) ==
  LET r1 == [r EXCEPT !.players = Without(@, playerId)]
  IN IF Len(r1.players) = Len(r.players) THEN Out(r1, s, "ok")
     ELSE Saved(r1, t, "ok")

\* GameRoom._handleHeartbeat: updatedAt is stamped in memory only.
HandleHeartbeat(r, s, t, playerId) ==
  Out([r EXCEPT !.updatedAt = t], s, "ok")

\* The assignments of _handleStartBidding on the confirming press.
EnterBidding(r, t) ==
  [r EXCEPT !.phase = "BIDDING",
            !.bidDeadline = t + r.bidDurationMs,
            !.bids = EmptyMap,
            !.winnerId = NoPlayer,
            !.loserId = NoPlayer,
            !.winningBidMs = NoAmount,
            !.losingBidMs = NoAmount,
            !.drawOddsSide = NoPlayer,
            !.choiceAttempts = 0,
            !.currentPicker = "null",
            !.startRequestedBy = NoPlayer,
            !.startConfirmDeadline = NoTime]

\* A variant of _handleStartBidding in which the requester's own second call
\* confirms the start.
HandleStartBidding_SelfConfirm(r, s, t, playerId) ==
  IF r.phase /= "LOBBY" THEN Out(r, s, "invalid_phase")
  ELSE IF Len(r.players) /= r.maxPlayers THEN Out(r, s, "need_more_players")
  ELSE IF r.startRequestedBy /= NoPlayer /\ r.startConfirmDeadline /= NoTime
  THEN IF t <= r.startConfirmDeadline
       THEN Saved(EnterBidding(r, t), t, "ok")
       ELSE Saved([r EXCEPT !.startRequestedBy = NoPlayer,
                            !.startConfirmDeadline = NoTime],
                  t, "start_request_expired")
  ELSE Saved([r EXCEPT !.startRequestedBy = playerId,
                       !.startConfirmDeadline = t + r.choiceDurationMs],
             t, "ok")

\* GameRoom._handleStartBidding
HandleStartBidding(r, s, t, playerId) ==
  IF r.phase /= "LOBBY" THEN Out(r, s, "invalid_phase")
  ELSE IF Len(r.players) /= r.maxPlayers THEN Out(r, s, "need_more_players")
  ELSE IF r.startRequestedBy /= NoPlayer /\ r.startConfirmDeadline /= NoTime
  THEN IF r.startRequestedBy = playerId THEN Out(r, s, "already_requested")
       ELSE IF t <= r.startConfirmDeadline
       THEN Saved(EnterBidding(r, t), t, "ok")
       ELSE Saved([r EXCEPT !.startRequestedBy = NoPlayer,
                            !.startConfirmDeadline = NoTime],
                  t, "start_request_expired")
  ELSE Saved([r EXCEPT !.startRequestedBy = playerId,
                       !.startConfirmDeadline = t + r.choiceDurationMs],
             t, "ok")

(* ------------------------------------------------------------------ *)
(* Bidding and color pick                                              *)
(* ------------------------------------------------------------------ *)

\* A variant of FillMissingBids that fills a missing bid with 0.
FillMissingBids_Zero(bids, p1, p2, mainTimeMs, t) ==
  LET f1 == IF p1 \notin DOMAIN bids
            THEN Put(bids, p1, [amount |-> 0])
            ELSE bids
  IN IF p2 \notin DOMAIN f1
     THEN Put(f1, p2, [amount |-> 0])
     ELSE f1

\* Lines 319-323 of _resolveBidsIfNeeded: after the deadline a missing bid
\* of either slot becomes mainTimeMs (written into room.bids itself, which
\* `bids` aliases).
FillMissingBids(bids, p1, p2, mainTimeMs, t) ==
  LET f1 == IF p1 \notin DOMAIN bids
            THEN Put(bids, p1, [amount |-> mainTimeMs])
            ELSE bids
  IN IF p2 \notin DOMAIN f1
     THEN Put(f1, p2, [amount |-> mainTimeMs])
     ELSE f1

\* Lines 335-345: the lower amount wins.
AssignBidWinner(r, p1, p2, a1, a2) ==
  IF a1 < a2
  THEN [r EXCEPT !.winnerId = p1, !.loserId = p2,
                 !.winningBidMs = a1, !.losingBidMs = a2]
  ELSE [r EXCEPT !.winnerId = p2, !.loserId = p1,
                 !.winningBidMs = a2, !.losingBidMs = a1]

\* Lines 347-351: the move to COLOR_PICK.
EnterColorPick(r, t) ==
  [r EXCEPT !.drawOddsSide = NoPlayer,
            !.phase = "COLOR_PICK",
            !.choiceAttempts = 0,
            !.currentPicker = "winner",
            !.choiceDeadline = t + r.choiceDurationMs]

\* A variant of TieRestart that keeps the tied bids.
TieRestart_KeepsBids(r, t) ==
  [r EXCEPT !.bidDeadline = t + r.bidDurationMs]

\* Lines 328-333: equal amounts restart the round.
TieRestart(r, t) ==
  [r EXCEPT !.bids = EmptyMap, !.bidDeadline = t + r.bidDurationMs]

\* GameRoom._resolveBidsIfNeeded
ResolveBidsIfNeeded(r, s, t) ==
  IF r.phase /= "BIDDING" THEN Out(r, s, "ok")
  ELSE
    LET p1 == PlayerAt(r, 1)
        p2 == PlayerAt(r, 2)
        deadlinePassed == r.bidDeadline /= NoTime /\ t > r.bidDeadline
        missing == p1 \notin DOMAIN r.bids \/ p2 \notin DOMAIN r.bids
    IN IF missing /\ ~deadlinePassed THEN Out(r, s, "ok")
       ELSE
         LET bids == IF missing
                     THEN FillMissingBids(r.bids, p1, p2, r.mainTimeMs, t)
                     ELSE r.bids
             r1 == [r EXCEPT !.bids = bids]
         IN IF bids[p1].amount = bids[p2].amount
            THEN Driven(Saved(TieRestart(r1, t), t, "ok"), "ok", "tie")
            ELSE Driven(Saved(EnterColorPick(
                                AssignBidWinner(r1, p1, p2, bids[p1].amount,
                                                bids[p2].amount), t),
                              t, "ok"),
                        "ok", "resolved")

\* GameRoom._handleSubmitBid
HandleSubmitBid(r, s, t, playerId, amount) ==
  IF r.phase /= "BIDDING" THEN Out(r, s, "not_bidding")
  ELSE IF playerId \notin PlayerIds(r) THEN Out(r, s, "unknown_player")
  ELSE IF amount < 0 \/ amount > r.mainTimeMs
  THEN Out(r, s, "invalid_bid_amount")
  ELSE IF r.bidDeadline /= NoTime /\ t > r.bidDeadline
  THEN LET o == ResolveBidsIfNeeded(r, s, t)
       IN Driven(o, "bidding_closed", o.drive)
  ELSE IF playerId \in DOMAIN r.bids THEN Out(r, s, "already_bid")
  ELSE
    LET r1 == [r EXCEPT !.bids =
                 Put(@, playerId, [amount |-> amount])]
        o1 == Saved(r1, t, "ok")
        o2 == ResolveBidsIfNeeded(o1.room, o1.stored, t)
    IN Driven(After(o1, o2), "ok", o2.drive)

\* Lines 367-369 of _handleChooseColor: colors of the chooser and of the
\* first other player, if any.
AssignColors(r, playerId, color) ==
  LET other == FirstOther(r.players, playerId)
  IN IF other /= NoPlayer
     THEN << [id |-> playerId, color |-> color],
             [id |-> other, color |-> OtherColor(color)] >>
     ELSE << [id |-> playerId, color |-> color] >>

\* Lines 371-381: the chosen color gets winnerMs, the other loserMs.
InitialClocks(color, winningBidMs, mainTimeMs, t) ==
  LET winnerMs == IF winningBidMs /= NoAmount THEN winningBidMs ELSE 0
      loserMs == mainTimeMs
  IN [present |-> TRUE,
      whiteRemainingMs |-> IF color = "white" THEN winnerMs ELSE loserMs,
      blackRemainingMs |-> IF color = "black" THEN winnerMs ELSE loserMs,
      lastTickAt |-> t,
      turn |-> "white",
      frozenAt |-> NoTime]

\* GameRoom._handleChooseColor; color "red" stands for any invalid color.
HandleChooseColor(r, s, t, playerId, color) ==
  IF r.phase /= "COLOR_PICK" THEN Out(r, s, "not_in_color_pick")
  ELSE
    LET allowedRole == IF r.currentPicker = "winner" THEN r.winnerId
                       ELSE r.loserId
    IN IF playerId /= allowedRole THEN Out(r, s, "not_allowed_to_choose")
       ELSE IF color \notin {"white", "black"} THEN Out(r, s, "invalid_color")
       ELSE IF r.choiceDeadline /= NoTime /\ t > r.choiceDeadline
       THEN Out(r, s, "choice_deadline_passed")
       ELSE
         LET cs == AssignColors(r, playerId, color)
         IN Saved([r EXCEPT
                     !.colors = cs,
                     !.clocks = InitialClocks(color, r.winningBidMs,
                                              r.mainTimeMs, t),
                     !.drawOddsSide = KeyWithColor(cs, "black"),
                     !.phase = "PLAYING"],
                  t, "ok")

\* A variant of ChoiceTimeout that reopens the lobby after the last attempt.
ChoiceTimeout_Reopens(r, t) ==
  LET r1 == [r EXCEPT !.choiceAttempts = @ + 1]
  IN IF r1.choiceAttempts >= MaxChoiceAttempts
     THEN [r1 EXCEPT !.phase = "LOBBY", !.winnerId = NoPlayer]
     ELSE [r1 EXCEPT
             !.currentPicker = IF @ = "winner" THEN "loser" ELSE "winner",
             !.choiceDeadline = t + r.choiceDurationMs]

\* A variant of ChoiceTimeout that leaves the pick with the same player.
ChoiceTimeout_KeepsPicker(r, t) ==
  LET r1 == [r EXCEPT !.choiceAttempts = @ + 1]
  IN IF r1.choiceAttempts >= MaxChoiceAttempts
     THEN [r1 EXCEPT !.phase = "FINISHED", !.winnerId = NoPlayer]
     ELSE [r1 EXCEPT !.choiceDeadline = t + r.choiceDurationMs]

\* Lines 395-401 and 403-405 of _resolveChoiceIfNeeded.
ChoiceTimeout(r, t) ==
  LET r1 == [r EXCEPT !.choiceAttempts = @ + 1]
  IN IF r1.choiceAttempts >= MaxChoiceAttempts
     THEN [r1 EXCEPT !.phase = "FINISHED", !.winnerId = NoPlayer]
     ELSE [r1 EXCEPT
             !.currentPicker = IF @ = "winner" THEN "loser" ELSE "winner",
             !.choiceDeadline = t + r.choiceDurationMs]

\* GameRoom._resolveChoiceIfNeeded
ResolveChoiceIfNeeded(r, s, t) ==
  IF r.phase /= "COLOR_PICK" THEN Out(r, s, "ok")
  ELSE IF r.choiceDeadline = NoTime \/ t <= r.choiceDeadline
  THEN Out(r, s, "ok")
  ELSE Driven(Saved(ChoiceTimeout(r, t), t, "ok"), "ok", "choice_timeout")

(* ------------------------------------------------------------------ *)
(* Playing: makeMove                                                   *)
(* ------------------------------------------------------------------ *)

\* What the request's move string and the chess engine make of a move:
\* "bad_format" is a move that is no string of 4 or more characters; the
\* rest is game.move()'s verdict and the predicates of the position it
\* leads to.  (isThreefoldRepetition() is never true of an engine that was
\* constructed from a FEN one move ago, so it is no outcome.)
MoveOutcomes ==
  {"bad_format", "illegal", "move", "checkmate", "stalemate",
   "insufficient_material", "draw"}

\* game.fen() after a legal move: the other side is to move; a mated or
\* stalemated position has no legal move.
FenAfter(fen, outcome) ==
  [present |-> TRUE, toMove |-> OtherColor(fen.toMove),
   over |-> outcome \in {"checkmate", "stalemate"}]

\* A variant of DeductElapsed that credits the elapsed time.
DeductElapsed_Credits(clocks, playerColor, t) ==
  LET elapsed == t - (IF clocks.lastTickAt /= NoTime THEN clocks.lastTickAt
                      ELSE t)
  IN IF playerColor = "white"
     THEN [clocks EXCEPT !.whiteRemainingMs = @ + elapsed]
     ELSE [clocks EXCEPT !.blackRemainingMs = @ + elapsed]

\* Lines 428-430: the elapsed time is taken from the mover's clock.
DeductElapsed(clocks, playerColor, t) ==
  LET elapsed == t - (IF clocks.lastTickAt /= NoTime THEN clocks.lastTickAt
                      ELSE t)
  IN IF playerColor = "white"
     THEN [clocks EXCEPT !.whiteRemainingMs = @ - elapsed]
     ELSE [clocks EXCEPT !.blackRemainingMs = @ - elapsed]

\* Lines 420-424: the mover is no longer tracked as disconnected, and
\* updatedAt is stamped in memory.
TouchByMover(r, playerId, t) ==
  LET r1 == IF r.disconnectedPlayerId = playerId
            THEN [r EXCEPT !.disconnectedPlayerId = NoPlayer,
                           !.disconnectStart = NoTime]
            ELSE r
  IN [r1 EXCEPT !.updatedAt = t]

\* players.find(p => colors[p.id] !== playerColor)?.id || null
RECURSIVE FirstNotOfColor(_, _, _)
FirstNotOfColor(ps, cs, c) ==
  IF ps = <<>> THEN NoPlayer
  ELSE IF ColorOf(cs, Head(ps)) /= c THEN Head(ps)
       ELSE FirstNotOfColor(Tail(ps), cs, c)

\* The opponent's non-king pieces at the start of a game, by type: what
\* game.board() of `new Chess(undefined)` holds for either color.
InitialNonKing ==
  <<"r", "n", "b", "q", "b", "n", "r", "p", "p", "p", "p", "p", "p", "p", "p">>

\* opponentNonKing (lines 438-440) in the positions a game is flagged in:
\* the types of the opponent's pieces other than the king.
OpponentNonKingInputs ==
  {<<>>, <<"b">>, <<"n">>, <<"b", "n">>, <<"q">>, <<"r">>, <<"p">>,
   InitialNonKing}

\* The boards the handler can read in r: it builds the game only in PLAYING
\* (line 426), from the initial position while gameFen is unset.
BoardsFor(r) ==
  IF r.phase = "PLAYING" /\ r.gameFen.present THEN OpponentNonKingInputs
  ELSE {InitialNonKing}

\* Lines 442-445
HasMajorOrPawn(opponentNonKing) ==
  \E i \in 1..Len(opponentNonKing) : opponentNonKing[i] \in {"q", "r", "p"}

\* Line 446
HasMultipleMinors(opponentNonKing) == Len(opponentNonKing) > 1

\* Line 448
CanEverMate(opponentNonKing) ==
  HasMajorOrPawn(opponentNonKing) \/ HasMultipleMinors(opponentNonKing)

\* Lines 449-480: the mover's flag has fallen.
FlagFall(r, playerColor, canEverMate, t) ==
  IF ~canEverMate
  THEN [r EXCEPT !.phase = "FINISHED",
                 !.winnerId = NoPlayer,
                 !.clocks.frozenAt = t,
                 !.rematchWindowEnds = t + RematchWindowNoMateMs,
                 !.rematchVotes = EmptyMap]
  ELSE [r EXCEPT !.phase = "FINISHED",
                 !.winnerId = FirstNotOfColor(r.players, r.colors, playerColor),
                 !.clocks.frozenAt = t,
                 !.rematchWindowEnds = t + RematchWindowMs,
                 !.rematchVotes = EmptyMap]

\* A variant of CommitMove that leaves the turn with the mover.
CommitMove_KeepsTurn(r, playerId, outcome, t) ==
  [r EXCEPT !.gameFen = FenAfter(r.gameFen, outcome),
            !.moves = Append(@, [by |-> playerId, at |-> t]),
            !.clocks.lastTickAt = t]

\* Lines 491-494: a legal move is committed.
CommitMove(r, playerId, outcome, t) ==
  [r EXCEPT !.gameFen = FenAfter(r.gameFen, outcome),
            !.moves = Append(@, [by |-> playerId, at |-> t]),
            !.clocks.lastTickAt = t,
            !.clocks.turn = OtherColor(@)]

\* Lines 496-534: checkmate or a draw ends the game.
EndGame(r, winnerId, t) ==
  [r EXCEPT !.phase = "FINISHED",
            !.winnerId = winnerId,
            !.clocks.frozenAt = t,
            !.rematchWindowEnds = t + RematchWindowMs,
            !.rematchVotes = EmptyMap]

\* GameRoom._handleMakeMove
HandleMakeMove(r, s, t, playerId, outcome, opponentNonKing) ==
  IF r.phase /= "PLAYING" THEN Out(r, s, "not_playing")
  ELSE
    LET playerColor == ColorOf(r.colors, playerId)
        canEverMate == CanEverMate(opponentNonKing)
    IN IF playerColor = "none" THEN Out(r, s, "unknown_player_color")
       ELSE IF playerColor /= r.clocks.turn THEN Out(r, s, "not_your_turn")
       ELSE
         LET r1 == [TouchByMover(r, playerId, t) EXCEPT
                      !.clocks = DeductElapsed(@, playerColor, t)]
             flagged == IF playerColor = "white"
                        THEN r1.clocks.whiteRemainingMs <= 0
                        ELSE r1.clocks.blackRemainingMs <= 0
         IN IF flagged
            THEN Saved(FlagFall(r1, playerColor, canEverMate, t), t,
                       IF canEverMate THEN "time_forfeit"
                       ELSE "timeout_but_opponent_cannot_mate")
            ELSE IF outcome = "bad_format"
            THEN Out(r1, s, "invalid_move_format")
            ELSE IF outcome = "illegal" THEN Out(r1, s, "illegal_move")
            ELSE
              LET r2 == CommitMove(r1, playerId, outcome, t)
              IN IF outcome = "checkmate"
                 THEN Saved(EndGame(r2, playerId, t), t, "checkmate")
                 ELSE IF outcome /= "move"
                 THEN Saved(EndGame(r2, NoPlayer, t), t, outcome)
                 ELSE Saved(r2, t, "ok")

(* ------------------------------------------------------------------ *)
(* getState and its lazy drivers                                       *)
(* ------------------------------------------------------------------ *)

\* Object.keys(colors).find(id => id !== activePlayerId), null when none.
RECURSIVE FirstKeyOther(_, _)
FirstKeyOther(cs, id) ==
  IF cs = <<>> THEN NoPlayer
  ELSE IF Head(cs).id /= id THEN Head(cs).id ELSE FirstKeyOther(Tail(cs), id)

\* Object.keys(colors)[i - 1], undefined past the end.
ColorKeyAt(cs, i) == IF i <= Len(cs) THEN cs[i].id ELSE Undef

\* A variant of DetectDisconnect that marks the side that is to move.
DetectDisconnect_MarksMover(r, t) ==
  IF r.disconnectedPlayerId = NoPlayer /\ (t - r.updatedAt) > DisconnectDetectMs
  THEN LET d == KeyWithColor(r.colors, r.clocks.turn)
       IN IF d /= NoPlayer
          THEN [r EXCEPT !.disconnectedPlayerId = d, !.disconnectStart = t]
          ELSE r
  ELSE r

\* Lines 619-629: after 10 s without an update the side that is not to
\* move is marked disconnected.
DetectDisconnect(r, t) ==
  IF r.disconnectedPlayerId = NoPlayer /\ (t - r.updatedAt) > DisconnectDetectMs
  THEN LET activePlayerId == KeyWithColor(r.colors, r.clocks.turn)
           d == IF activePlayerId /= NoPlayer
                THEN FirstKeyOther(r.colors, activePlayerId)
                ELSE NoPlayer
       IN IF d /= NoPlayer
          THEN [r EXCEPT !.disconnectedPlayerId = d, !.disconnectStart = t]
          ELSE r
  ELSE r

\* A variant of DisconnectForfeit that forfeits as soon as a disconnect is
\* tracked.
DisconnectForfeit_NoGrace(r, t) ==
  IF r.disconnectedPlayerId /= NoPlayer /\ r.disconnectStart /= NoTime
  THEN [r EXCEPT !.phase = "FINISHED",
                 !.winnerId = IF r.disconnectedPlayerId = ColorKeyAt(r.colors, 1)
                              THEN ColorKeyAt(r.colors, 2)
                              ELSE ColorKeyAt(r.colors, 1),
                 !.closeReason = "disconnect_forfeit"]
  ELSE r

\* Lines 631-639: the disconnect timeout forfeits the game.
DisconnectForfeit(r, t) ==
  IF /\ r.disconnectedPlayerId /= NoPlayer
     /\ r.disconnectStart /= NoTime
     /\ (t - r.disconnectStart) > r.disconnectTimeoutMs
  THEN [r EXCEPT !.phase = "FINISHED",
                 !.winnerId = IF r.disconnectedPlayerId = ColorKeyAt(r.colors, 1)
                              THEN ColorKeyAt(r.colors, 2)
                              ELSE ColorKeyAt(r.colors, 1),
                 !.closeReason = "disconnect_forfeit"]
  ELSE r

\* Lines 642-649: an unconfirmed start request closes the room.
StartExpired(r, t) ==
  IF ~r.closed /\ r.startConfirmDeadline /= NoTime /\ t > r.startConfirmDeadline
  THEN [r EXCEPT !.startRequestedBy = NoPlayer,
                 !.startConfirmDeadline = NoTime,
                 !.closed = TRUE,
                 !.closeReason = "start_expired",
                 !.closedAt = t]
  ELSE r

\* Lines 651-665: ten minutes later the closed room leaves the index.
StartExpiredRemoved(r, t) ==
  IF /\ r.closed /\ r.closeReason = "start_expired" /\ r.closedAt /= NoTime
     /\ (t - r.closedAt) > StartExpiredRemoveMs
  THEN [r EXCEPT !.removedAt = t]
  ELSE r

\* rematchVotes[pid] === v
VotedAs(votes, pid, v) == pid \in DOMAIN votes /\ votes[pid] = v

\* players.every(pid => votes[pid] === true), players non-empty
AllAgreed(r, votes) ==
  Len(r.players) > 0 /\ \A pid \in PlayerIds(r) : VotedAs(votes, pid, TRUE)

\* players.some(pid => votes[pid] === false)
AnyNo(r, votes) == \E pid \in PlayerIds(r) : VotedAs(votes, pid, FALSE)

\* Lines 667-717: the rematch window has run out without unanimity.
RematchWindowExpired(r, t) ==
  /\ r.phase = "FINISHED"
  /\ r.rematchWindowEnds /= NoTime
  /\ t > r.rematchWindowEnds
  /\ ~AllAgreed(r, r.rematchVotes)

CloseAfterWindow(r, t) ==
  [r EXCEPT !.closed = TRUE,
            !.closeReason = IF AnyNo(r, r.rematchVotes) THEN "declined_rematch"
                            ELSE "rematch_timeout",
            !.closedAt = t]

\* players.filter(pid => votes[pid] === true)
RECURSIVE YesVoters(_, _)
YesVoters(ps, votes) ==
  IF ps = <<>> THEN <<>>
  ELSE IF VotedAs(votes, Head(ps), TRUE)
       THEN <<Head(ps)>> \o YesVoters(Tail(ps), votes)
       ELSE YesVoters(Tail(ps), votes)

\* Lines 675-710: the room is removed from the index, and for every yes
\* voter the index is sent an /update that lists the room as a LOBBY.
WindowExpiredCalls(r) ==
  LET yes == YesVoters(r.players, r.rematchVotes)
  IN <<RemoveCall>> \o [i \in 1..Len(yes) |-> UpdateCall("LOBBY")]

\* GameRoom._handleGetState
HandleGetState(r, s, t) ==
  LET o1 == ResolveBidsIfNeeded(r, s, t)
      o2 == After(o1, ResolveChoiceIfNeeded(o1.room, o1.stored, t))
      r2 == o2.room
      drive == IF o1.drive /= "none" THEN o1.drive ELSE o2.drive
  IN IF r2.updatedAt /= NoTime /\ (t - r2.updatedAt) > RoomTooOldMs
     THEN Driven(Calling([o2 EXCEPT
                            !.stored = [exists |-> FALSE,
                                        rec |-> DefaultState(NoTime)]],
                         <<RemoveCall>>),
                 "room_expired", drive)
     ELSE
       LET r3 == IF r2.phase = "PLAYING"
                 THEN DisconnectForfeit(DetectDisconnect(r2, t), t)
                 ELSE r2
           r3s == StartExpired(r3, t)
           r4 == StartExpiredRemoved(r3s, t)
           saveNeeded == r4 /= r2
           o4 == Calling([o2 EXCEPT !.room = r4],
                         IF r4 /= r3s THEN <<RemoveCall>> ELSE <<>>)
           o5 == IF RematchWindowExpired(r4, t)
                 THEN After(Calling(o4, WindowExpiredCalls(r4)),
                            Saved(CloseAfterWindow(r4, t), t, "ok"))
                 ELSE o4
       IN Driven(IF saveNeeded THEN After(o5, Saved(o5.room, t, "ok"))
                 ELSE o5,
                 "ok", drive)

(* ------------------------------------------------------------------ *)
(* rematch                                                             *)
(* ------------------------------------------------------------------ *)

\* Lines 745-760: the reset of a unanimous yes.
RematchReset(r) ==
  [r EXCEPT !.phase = "LOBBY",
            !.bids = EmptyMap,
            !.bidDeadline = NoTime,
            !.choiceDeadline = NoTime,
            !.winnerId = NoPlayer,
            !.loserId = NoPlayer,
            !.winningBidMs = NoAmount,
            !.losingBidMs = NoAmount,
            !.drawOddsSide = NoPlayer,
            !.colors = <<>>,
            !.clocks = NoClocks,
            !.moves = <<>>,
            !.choiceAttempts = 0,
            !.currentPicker = "null",
            !.rematchWindowEnds = NoTime,
            !.rematchVotes = NullVotes]

\* A variant of HandleRematch that lets a player vote again.
HandleRematch_Revotes(r, s, t, playerId, agree) ==
  IF r.phase /= "FINISHED" THEN Out(r, s, "not_finished")
  ELSE IF r.rematchWindowEnds = NoTime \/ t > r.rematchWindowEnds
  THEN Out(r, s, "rematch_window_closed")
  ELSE
    LET votes == IF r.rematchVotes = NullVotes THEN EmptyMap
                 ELSE r.rematchVotes
        o1 == Saved([r EXCEPT !.rematchVotes = Put(votes, playerId, agree)],
                    t, "ok")
        r1 == o1.room
        yes == YesVoters(r1.players, r1.rematchVotes)
    IN IF AllAgreed(r1, r1.rematchVotes)
       THEN After(o1, Saved(RematchReset(r1), t, "rematch_started"))
       ELSE IF AnyNo(r1, r1.rematchVotes)
       THEN After(Calling(o1, <<RemoveCall>>
                                \o [i \in 1..Len(yes) |->
                                      AddToQueueCall(yes[i])]),
                  Saved([r1 EXCEPT !.closed = TRUE,
                                   !.closeReason = "declined_rematch",
                                   !.closedAt = t],
                        t, "no_vote"))
       ELSE o1

\* GameRoom._handleRematch
HandleRematch(r, s, t, playerId, agree) ==
  IF r.phase /= "FINISHED" THEN Out(r, s, "not_finished")
  ELSE IF r.rematchWindowEnds = NoTime \/ t > r.rematchWindowEnds
  THEN Out(r, s, "rematch_window_closed")
  ELSE
    LET votes == IF r.rematchVotes = NullVotes THEN EmptyMap
                 ELSE r.rematchVotes
    IN IF playerId \in DOMAIN votes
       THEN Out([r EXCEPT !.rematchVotes = votes], s, "already_voted")
       ELSE
         LET o1 == Saved([r EXCEPT !.rematchVotes = Put(votes, playerId, agree)],
                         t, "ok")
             r1 == o1.room
             yes == YesVoters(r1.players, r1.rematchVotes)
         IN IF AllAgreed(r1, r1.rematchVotes)
            THEN After(o1, Saved(RematchReset(r1), t, "rematch_started"))
            ELSE IF AnyNo(r1, r1.rematchVotes)
            THEN After(Calling(o1, <<RemoveCall>>
                                     \o [i \in 1..Len(yes) |->
                                           AddToQueueCall(yes[i])]),
                       Saved([r1 EXCEPT !.closed = TRUE,
                                        !.closeReason = "declined_rematch",
                                        !.closedAt = t],
                             t, "no_vote"))
            ELSE o1

(* ------------------------------------------------------------------ *)
(* Initial states and the wall clock                                   *)
(* ------------------------------------------------------------------ *)

\* Storage before the first put.
NothingStored == [exists |-> FALSE, rec |-> DefaultState(NoTime)]

\* A room begins with an initRoom request (POST /rooms, the queue-join flow,
\* or a body naming a creator): the object is constructed, _load()s the
\* default state from empty storage and handles init.
Init ==
  /\ now = StartNow
  /\ \E body \in InitBodies :
       LET o == HandleInit(DefaultState(StartNow), NothingStored, StartNow,
                           body)
       IN room = o.room /\ stored = o.stored
          /\ index = IndexAfter(EmptyIndex, o.calls, StartNow)
  /\ last = [op |-> "init", by |-> NoPlayer, arg |-> "none", res |-> "ok",
             drive |-> "none"]
  /\ games = 0
  /\ clockStart = NoTime
  /\ MatchIdle

\* Time passes between requests, at most n ticks in all.
TickUpTo(n) ==
  /\ now + TickMs <= StartNow + n * TickMs
  /\ now' = now + TickMs
  /\ UNCHANGED roomVars
  /\ UNCHANGED matchVars

Tick == TickUpTo(MaxTicks)

(* ------------------------------------------------------------------ *)
(* The requests                                                        *)
(* ------------------------------------------------------------------ *)

InitRoom ==
  \E body \in InitBodies :
    Apply("init", NoPlayer, "none", HandleInit(room, stored, now, body))

JoinRoom ==
  \E p \in Players : Apply("join", p, "none", HandleJoin(room, stored, now, p))

LeaveRoom ==
  \E p \in Players : Apply("leave", p, "none", HandleLeave(room, stored, now, p))

Heartbeat ==
  \E p \in Players :
    Apply("heartbeat", p, "none", HandleHeartbeat(room, stored, now, p))

StartBidding ==
  \E p \in Players :
    Apply("startBidding", p, "none", HandleStartBidding(room, stored, now, p))

SubmitBid ==
  \E p \in Players, a \in BidAmounts :
    Apply("submitBid", p, ToString(a),
          HandleSubmitBid(room, stored, now, p, a))

\* At most n games are started.
ChooseColorUpTo(n) ==
  \E p \in Players, c \in {"white", "black", "red"} :
    /\ games < n
    /\ Apply("chooseColor", p, c, HandleChooseColor(room, stored, now, p, c))

ChooseColor == ChooseColorUpTo(MaxGames)

\* The opponent of a side in the initial position can always mate; later
\* the board decides.
MakeMove ==
  \E p \in Players, outcome \in MoveOutcomes,
     opponentNonKing \in BoardsFor(room) :
    /\ room.gameFen.over => outcome \in {"bad_format", "illegal"}
    /\ outcome \notin {"bad_format", "illegal"} => Len(room.moves) < MaxMoves
    /\ Apply("makeMove", p, outcome,
             HandleMakeMove(room, stored, now, p, outcome, opponentNonKing))

Rematch ==
  \E p \in Players, agree \in BOOLEAN :
    Apply("rematch", p, ToString(agree),
          HandleRematch(room, stored, now, p, agree))

GetState == Apply("getState", NoPlayer, "none", HandleGetState(room, stored, now))

Next ==
  \/ Tick
  \/ InitRoom
  \/ JoinRoom
  \/ LeaveRoom
  \/ Heartbeat
  \/ StartBidding
  \/ SubmitBid
  \/ ChooseColor
  \/ MakeMove
  \/ Rematch
  \/ GetState

Spec == Init /\ [][Next]_vars

(* ------------------------------------------------------------------ *)
(* The room from the color pick on, over a longer stretch of time      *)
(* ------------------------------------------------------------------ *)

\* The queue-join flow seeds p1 and p2; both press start and bid at once:
\* p1 bids 0, p2 bids 50000, and the room is in COLOR_PICK.
Seeded ==
  HandleInit(DefaultState(StartNow), NothingStored, StartNow,
             [mainTimeMs |-> 150000, creatorPlayerId |-> NoPlayer,
              queuedPlayers |-> <<"p1", "p2">>])
Requested == HandleStartBidding(Seeded.room, Seeded.stored, StartNow, "p1")
Confirmed == HandleStartBidding(Requested.room, Requested.stored, StartNow, "p2")
FirstBid == HandleSubmitBid(Confirmed.room, Confirmed.stored, StartNow, "p1", 0)
SecondBid ==
  HandleSubmitBid(FirstBid.room, FirstBid.stored, StartNow, "p2", 50000)

InitColorPick ==
  /\ now = StartNow
  /\ room = SecondBid.room
  /\ stored = SecondBid.stored
  /\ index = IndexAfter(EmptyIndex,
                        Seeded.calls \o Requested.calls \o Confirmed.calls
                          \o FirstBid.calls \o SecondBid.calls,
                        StartNow)
  /\ last = [op |-> "submitBid", by |-> "p2", arg |-> "50000", res |-> "ok",
             drive |-> "resolved"]
  /\ games = 0
  /\ clockStart = NoTime
  /\ MatchIdle

LateTick == TickUpTo(MaxLateTicks)

ChooseColorOnce == ChooseColorUpTo(1)

NextColorPick ==
  \/ LateTick
  \/ InitRoom
  \/ JoinRoom
  \/ LeaveRoom
  \/ Heartbeat
  \/ StartBidding
  \/ SubmitBid
  \/ ChooseColorOnce
  \/ MakeMove
  \/ Rematch
  \/ GetState

SpecColorPick == InitColorPick /\ [][NextColorPick]_vars

\* The room is left alone for IdleMs, once, at any point of its life.
Idle ==
  /\ now = StartNow
  /\ now' = now + IdleMs
  /\ UNCHANGED roomVars
  /\ UNCHANGED matchVars

NextIdle ==
  \/ Idle
  \/ InitRoom
  \/ JoinRoom
  \/ LeaveRoom
  \/ Heartbeat
  \/ StartBidding
  \/ SubmitBid
  \/ ChooseColor
  \/ MakeMove
  \/ Rematch
  \/ GetState

SpecIdle == Init /\ [][NextIdle]_vars

\* ---------------------------------------------------------------------
\* A room whose players start the bidding and then submit no bid, while
\* the clock advances and the room's state is read again and again.
WaitTick == TickUpTo(MaxWaitTicks)

NextNoBid ==
  \/ WaitTick
  \/ JoinRoom
  \/ StartBidding
  \/ GetState

\* A getState now would change the room, the stored record or the index.
GetStateHasWork ==
  LET o == HandleGetState(room, stored, now)
  IN \/ o.room /= room
     \/ o.stored /= stored
     \/ IndexAfter(index, o.calls, now) /= index

\* Weak fairness of GetState, with its enabling condition written out: a
\* getState that has work to do does not wait forever.
GetStateServed == []<>(~GetStateHasWork) \/ []<><<GetState>>_vars

\* The clock goes on, and a getState that has something to do is served.
SpecNoBid ==
  Init /\ [][NextNoBid]_vars /\ WF_vars(WaitTick) /\ GetStateServed

(* ------------------------------------------------------------------ *)
(* Matchmaking: the queue requests                                     *)
(* ------------------------------------------------------------------ *)

\* The queues are empty and no room exists yet.
InitMatch ==
  /\ now = StartNow
  /\ room = DefaultState(StartNow)
  /\ stored = NothingStored
  /\ index = EmptyIndex
  /\ last = [op |-> "none", by |-> NoPlayer, arg |-> "none", res |-> "ok",
             drive |-> "none"]
  /\ games = 0
  /\ clockStart = NoTime
  /\ MatchIdle

MatchTick ==
  /\ now + MatchTickMs <= StartNow + MaxMatchTicks * MatchTickMs
  /\ now' = now + MatchTickMs
  /\ UNCHANGED roomVars
  /\ UNCHANGED matchVars

\* The flows that have a room to create.
CreatingFlows == {p \in MatchPlayers : flows[p].stage = "create"}

\* Router /queue/join, first step: POST /addToQueue.  A shouldCreateRoom
\* reply leaves the flow with a room to create; otherwise the caller is
\* answered queued.
QueueJoin ==
  \E p \in MatchPlayers, tc \in TimeControlSet :
    /\ flows[p].stage = "idle"
    /\ Len(gameRooms) + Cardinality(CreatingFlows) < MaxMatchRooms
    /\ LET qs == IndexAddToQueue(queues, p, tc, now)
           d == Directive(qs, tc)
       IN /\ queues' = qs
          /\ flows' = IF d /= <<>>
                      THEN [flows EXCEPT ![p] =
                              [stage |-> "create", mainTimeMs |-> tc,
                               queuedPlayers |-> d, roomId |-> NoRoom]]
                      ELSE flows
    /\ UNCHANGED <<rooms, gameRooms, anchors, now>>
    /\ UNCHANGED roomVars

\* Second step: POST /initRoom to a new GameRoom with the directive's
\* queuedPlayers; the room's _save lists it in the directory.
CreateMatchRoom ==
  \E p \in MatchPlayers :
    /\ flows[p].stage = "create"
    /\ LET roomId == Len(gameRooms) + 1
           players == PushQueued(<<>>, flows[p].queuedPlayers)
       IN /\ gameRooms' = Append(gameRooms,
                                 [roomId |-> roomId, players |-> players,
                                  phase |-> "LOBBY", closed |-> FALSE])
          /\ rooms' = IndexUpdateRoom(rooms, roomId, "LOBBY", players)
          /\ flows' = [flows EXCEPT ![p].stage = "remove",
                                    ![p].roomId = roomId]
    /\ UNCHANGED <<queues, anchors, now>>
    /\ UNCHANGED roomVars

\* Third step: POST /removeFromAllQueues with the matched players, and the
\* caller is answered {ok, roomId, room}.
RemoveMatched ==
  \E p \in MatchPlayers :
    /\ flows[p].stage = "remove"
    /\ queues' = RemoveFromAllQueues(queues, IdsOf(flows[p].queuedPlayers))
    /\ flows' = [flows EXCEPT ![p] = IdleFlow]
    /\ UNCHANGED <<rooms, gameRooms, anchors, now>>
    /\ UNCHANGED roomVars

\* Router /queue/leave
QueueLeave ==
  \E p \in MatchPlayers :
    /\ queues' = RemoveFromAllQueues(queues, {p})
    /\ UNCHANGED <<rooms, flows, gameRooms, anchors, now>>
    /\ UNCHANGED roomVars

\* Router /queue/heartbeat
QueueHeartbeat ==
  \E p \in MatchPlayers :
    /\ queues' = IndexHeartbeat(queues, p, now)
    /\ UNCHANGED <<rooms, flows, gameRooms, anchors, now>>
    /\ UNCHANGED roomVars

\* RoomIndex /joinAll
JoinAll ==
  \E p \in MatchPlayers :
    /\ queues' = IndexJoinAll(queues, p, now)
    /\ UNCHANGED <<rooms, flows, gameRooms, anchors, now>>
    /\ UNCHANGED roomVars

\* Router /queue/checkMatch: a read of the directory and the queues.
CheckMatch ==
  \E p \in MatchPlayers :
    /\ IndexCheckMatch(rooms, queues, p).matched \in BOOLEAN
    /\ UNCHANGED <<queues, rooms, flows, gameRooms, anchors, now>>
    /\ UNCHANGED roomVars

\* A created room goes on (its players start the game, the game ends); each
\* _save posts the phase to the directory.
RoomAdvances ==
  \E i \in 1..Len(gameRooms) :
    /\ ~gameRooms[i].closed
    /\ gameRooms[i].phase \in {"LOBBY", "PLAYING"}
    /\ LET phase == IF gameRooms[i].phase = "LOBBY" THEN "PLAYING"
                    ELSE "FINISHED"
       IN /\ gameRooms' = [gameRooms EXCEPT ![i].phase = phase]
          /\ rooms' = IndexUpdateRoom(rooms, gameRooms[i].roomId, phase,
                                      gameRooms[i].players)
    /\ UNCHANGED <<queues, flows, anchors, now>>
    /\ UNCHANGED roomVars

\* A finished room is closed with no yes vote: it is removed from the
\* directory and its closing _save posts no update.
RoomCloses ==
  \E i \in 1..Len(gameRooms) :
    /\ ~gameRooms[i].closed
    /\ gameRooms[i].phase = "FINISHED"
    /\ gameRooms' = [gameRooms EXCEPT ![i].closed = TRUE]
    /\ rooms' = IndexRemoveRoom(rooms, gameRooms[i].roomId)
    /\ UNCHANGED <<queues, flows, anchors, now>>
    /\ UNCHANGED roomVars

NextMatch ==
  \/ MatchTick
  \/ QueueJoin
  \/ CreateMatchRoom
  \/ RemoveMatched
  \/ QueueLeave
  \/ QueueHeartbeat
  \/ CheckMatch
  \/ RoomAdvances
  \/ RoomCloses

SpecMatch == InitMatch /\ [][NextMatch]_vars

\* ---------------------------------------------------------------------
\* The RoomIndex object alone: its queue endpoints, called in any order
\* with any arguments.

IndexTick ==
  /\ now + IndexTickMs <= StartNow + MaxIndexTicks * IndexTickMs
  /\ now' = now + IndexTickMs
  /\ UNCHANGED roomVars
  /\ UNCHANGED matchVars

\* POST /addToQueue
PostAddToQueue ==
  \E p \in MatchPlayers, tc \in TimeControlSet :
    /\ queues' = IndexAddToQueue(queues, p, tc, now)
    /\ UNCHANGED <<rooms, flows, gameRooms, anchors, now>>
    /\ UNCHANGED roomVars

\* POST /removeFromAllQueues
PostRemoveFromAllQueues ==
  \E ids \in (SUBSET MatchPlayers) \ {{}} :
    /\ queues' = RemoveFromAllQueues(queues, ids)
    /\ UNCHANGED <<rooms, flows, gameRooms, anchors, now>>
    /\ UNCHANGED roomVars

NextIndex ==
  \/ IndexTick
  \/ PostAddToQueue
  \/ JoinAll
  \/ QueueHeartbeat
  \/ PostRemoveFromAllQueues

SpecIndex == InitMatch /\ [][NextIndex]_vars

\* ---------------------------------------------------------------------
\* The wait-time estimates of RoomIndex.

\* The bodies a game room posts to /update, as far as the estimates read
\* them: phase, number of players, and the two clocks (0 when the room has
\* no clocks yet).
EstimateUpdates ==
  {[phase |-> "LOBBY", count |-> 1, white |-> 0, black |-> 0],
   [phase |-> "PLAYING", count |-> 1, white |-> 100000, black |-> 300000],
   [phase |-> "PLAYING", count |-> 2, white |-> 0, black |-> 0],
   [phase |-> "PLAYING", count |-> 2, white |-> 100000, black |-> 300000],
   [phase |-> "PLAYING", count |-> 2, white |-> 200000, black |-> 300000],
   [phase |-> "FINISHED", count |-> 2, white |-> 100000, black |-> 300000]}

\* RoomIndex.fetch on /update, with the fields _indexUpdate sends for the
\* estimates: mainTimeMs, liveWhiteMs, liveBlackMs.
IndexUpdateGame(rs, roomId, mainTimeMs, body) ==
  LET e == [roomId |-> roomId, phase |-> body.phase,
            players |-> SubSeq(<<"p1", "p2">>, 1, body.count),
            mainTimeMs |-> mainTimeMs,
            liveWhiteMs |-> body.white, liveBlackMs |-> body.black]
  IN IF \E i \in 1..Len(rs) : rs[i].roomId = roomId
     THEN [i \in 1..Len(rs) |-> IF rs[i].roomId = roomId THEN e ELSE rs[i]]
     ELSE Append(rs, e)

\* Lines 929-933: the directory entries that count as active games of a
\* time control, by their place in Object.values(rooms).
ActiveGames(rs, tc) ==
  {i \in 1..Len(rs) :
     /\ rs[i].mainTimeMs = tc
     /\ rs[i].phase = "PLAYING"
     /\ Len(rs[i].players) = 2}

\* Lines 952-965: the smaller clock of a game, or the full time when the
\* entry has no clock above 0.
MinPlayerTime(g) ==
  IF g.liveWhiteMs > 0 \/ g.liveBlackMs > 0
  THEN IF g.liveWhiteMs < g.liveBlackMs THEN g.liveWhiteMs
       ELSE g.liveBlackMs
  ELSE g.mainTimeMs

\* Lines 947-970: the first game with the least remaining time.
ShortestGame(rs, tc) ==
  CHOOSE i \in ActiveGames(rs, tc) :
    /\ \A j \in ActiveGames(rs, tc) :
         MinPlayerTime(rs[i]) <= MinPlayerTime(rs[j])
    /\ \A j \in ActiveGames(rs, tc) :
         j < i => MinPlayerTime(rs[j]) > MinPlayerTime(rs[i])

\* Lines 974-975
HasRealClockData(g) ==
  (IF g.liveWhiteMs /= 0 THEN g.liveWhiteMs ELSE g.liveBlackMs) > 0

\* An estimate that makes a new anchor at every call.
EstimateFor_FreshAnchor(rs, qs, an, tc, t) ==
  IF Len(qs[tc]) >= 1
  THEN [type |-> "match_now", startTime |-> NoTime, durationMs |-> 0,
        anchor |-> an[tc]]
  ELSE IF ActiveGames(rs, tc) = {}
  THEN [type |-> "none", startTime |-> NoTime, durationMs |-> 0,
        anchor |-> an[tc]]
  ELSE LET g == rs[ShortestGame(rs, tc)]
       IN IF ~HasRealClockData(g)
          THEN [type |-> "games_active", startTime |-> NoTime,
                durationMs |-> 0, anchor |-> an[tc]]
          ELSE [type |-> "countdown", startTime |-> t,
                durationMs |-> MinPlayerTime(g),
                anchor |-> [gameId |-> g.roomId, startTime |-> t,
                            durationMs |-> MinPlayerTime(g)]]

\* RoomIndex._getEstimatedWaitTimes for one time control: the estimate
\* reported and the anchor left in storage.
EstimateFor(rs, qs, an, tc, t) ==
  IF Len(qs[tc]) >= 1
  THEN [type |-> "match_now", startTime |-> NoTime, durationMs |-> 0,
        anchor |-> an[tc]]
  ELSE IF ActiveGames(rs, tc) = {}
  THEN [type |-> "none", startTime |-> NoTime, durationMs |-> 0,
        anchor |-> an[tc]]
  ELSE LET g == rs[ShortestGame(rs, tc)]
       IN IF ~HasRealClockData(g)
          THEN [type |-> "games_active", startTime |-> NoTime,
                durationMs |-> 0, anchor |-> an[tc]]
          ELSE IF an[tc] = NoAnchor \/ an[tc].gameId /= g.roomId
          THEN [type |-> "countdown", startTime |-> t,
                durationMs |-> MinPlayerTime(g),
                anchor |-> [gameId |-> g.roomId, startTime |-> t,
                            durationMs |-> MinPlayerTime(g)]]
          ELSE [type |-> "countdown", startTime |-> an[tc].startTime,
                durationMs |-> an[tc].durationMs, anchor |-> an[tc]]

\* RoomIndex._getEstimatedWaitTimes: the loop over the time controls.
EstimatedWaitTimes(rs, qs, an, t) ==
  [tc \in TimeControlSet |-> EstimateFor(rs, qs, an, tc, t)]

\* A game room posts /update.
PostUpdate ==
  \E roomId \in 1..MaxMatchRooms, tc \in TimeControlSet,
     body \in EstimateUpdates :
    /\ rooms' = IndexUpdateGame(rooms, roomId, tc, body)
    /\ UNCHANGED <<queues, flows, gameRooms, anchors, now>>
    /\ UNCHANGED roomVars

\* A game room posts /remove.
PostRemove ==
  \E roomId \in 1..MaxMatchRooms :
    /\ rooms' = IndexRemoveRoom(rooms, roomId)
    /\ UNCHANGED <<queues, flows, gameRooms, anchors, now>>
    /\ UNCHANGED roomVars

\* One player waits in a bucket, or leaves the queues.
WaiterJoins ==
  \E tc \in TimeControlSet :
    /\ queues' = IndexAddToQueue(queues, "p3", tc, now)
    /\ UNCHANGED <<rooms, flows, gameRooms, anchors, now>>
    /\ UNCHANGED roomVars

WaiterLeaves ==
  /\ queues' = RemoveFromAllQueues(queues, {"p3"})
  /\ UNCHANGED <<rooms, flows, gameRooms, anchors, now>>
  /\ UNCHANGED roomVars

\* GET /queue-status: the estimates are computed and the anchors they made
\* are stored.
QueueStatus ==
  /\ anchors' = [tc \in TimeControlSet |->
                   EstimatedWaitTimes(rooms, queues, anchors, now)[tc].anchor]
  /\ UNCHANGED <<queues, rooms, flows, gameRooms, now>>
  /\ UNCHANGED roomVars

NextEstimates ==
  \/ MatchTick
  \/ PostUpdate
  \/ PostRemove
  \/ WaiterJoins
  \/ WaiterLeaves
  \/ QueueStatus

SpecEstimates == InitMatch /\ [][NextEstimates]_vars

(* ------------------------------------------------------------------ *)
(* Properties                                                          *)
(* ------------------------------------------------------------------ *)

\* The step was a request that changed the room, its stored record or the
\* index, so last' describes this very request.
Changed == room' /= room \/ stored' /= stored \/ index' /= index

\* Whether the bid deadline of r has passed at t.
DeadlinePassed(r, t) == r.bidDeadline /= NoTime /\ t > r.bidDeadline

\* whiteRemainingMs + blackRemainingMs
ClockSum(r) == r.clocks.whiteRemainingMs + r.clocks.blackRemainingMs

\* The remaining time of the side that id plays.
ClockOf(r, id) ==
  IF ColorOf(r.colors, id) = "white" THEN r.clocks.whiteRemainingMs
  ELSE r.clocks.blackRemainingMs

\* The phase graph the specification permits.
ClaimedEdges ==
  {<<"LOBBY", "BIDDING">>, <<"BIDDING", "COLOR_PICK">>,
   <<"COLOR_PICK", "PLAYING">>, <<"PLAYING", "FINISHED">>,
   <<"FINISHED", "LOBBY">>}

\* C1 as stated: every change of room.phase is one of LOBBY -> BIDDING,
\* BIDDING -> COLOR_PICK, COLOR_PICK -> PLAYING, PLAYING -> FINISHED,
\* FINISHED -> LOBBY.
C1_PhaseGraph_Original ==
  [][room'.phase /= room.phase
       => <<room.phase, room'.phase>> \in ClaimedEdges]_vars

\* C1: every change of room.phase is one of LOBBY -> BIDDING,
\* BIDDING -> COLOR_PICK, COLOR_PICK -> PLAYING, COLOR_PICK -> FINISHED
\* (the color pick timed out for the fourth time), PLAYING -> FINISHED,
\* FINISHED -> LOBBY; no other edge is taken and no phase is skipped.
C1_PhaseGraph ==
  [][room'.phase /= room.phase
       => <<room.phase, room'.phase>>
            \in ClaimedEdges \cup {<<"COLOR_PICK", "FINISHED">>}]_vars

\* The fourth pick timeout has finished the room without a game.
C1_Witness ==
  /\ room.phase = "FINISHED"
  /\ last.drive = "choice_timeout"
  /\ room.choiceAttempts = MaxChoiceAttempts
  /\ ~room.clocks.present

\* C2: when bid resolution moves the room from BIDDING to COLOR_PICK,
\* winnerId is the player whose bid amount is strictly lower, loserId is the
\* other player, winningBidMs and losingBidMs are their two amounts,
\* currentPicker is "winner" and choiceAttempts is 0.
C2_LowerBidWins ==
  [][(room.phase = "BIDDING" /\ room'.phase = "COLOR_PICK")
       => LET w == room'.winnerId
              l == room'.loserId
          IN /\ w \in PlayerIds(room')
             /\ l \in PlayerIds(room')
             /\ w /= l
             /\ w \in DOMAIN room'.bids
             /\ l \in DOMAIN room'.bids
             /\ room'.bids[w].amount < room'.bids[l].amount
             /\ room'.winningBidMs = room'.bids[w].amount
             /\ room'.losingBidMs = room'.bids[l].amount
             /\ room'.currentPicker = "winner"
             /\ room'.choiceAttempts = 0]_vars

\* C3: when bid resolution finds the two amounts equal the room stays in
\* BIDDING with bids empty and bidDeadline = now + bidDurationMs, and no
\* winnerId or loserId is assigned; a move to COLOR_PICK never happens on
\* equal amounts.
C3_TieRestarts ==
  [][/\ (Changed /\ last'.drive = "tie")
          => /\ room.phase = "BIDDING"
             /\ room'.phase = "BIDDING"
             /\ room'.bids = EmptyMap
             /\ room'.bidDeadline = now + room.bidDurationMs
             /\ room'.winnerId = NoPlayer
             /\ room'.loserId = NoPlayer
     /\ (room.phase = "BIDDING" /\ room'.phase = "COLOR_PICK")
          => /\ room'.winningBidMs /= room'.losingBidMs
             /\ room'.bids[PlayerAt(room, 1)].amount
                  /= room'.bids[PlayerAt(room, 2)].amount]_vars

\* Two equal bids have restarted the round.
C3_Witness ==
  /\ last.op = "submitBid"
  /\ last.drive = "tie"
  /\ room.phase = "BIDDING"
  /\ room.bids = EmptyMap
  /\ room.bidDeadline = now + room.bidDurationMs

\* The amount resolution uses for a seat after the deadline.
EffectiveBid(r, id) ==
  IF id \in DOMAIN r.bids THEN r.bids[id].amount ELSE r.mainTimeMs

\* C4: when resolution runs after bidDeadline, every seat without a bid is
\* given mainTimeMs and the round resolves on those amounts as on submitted
\* ones (the lower wins, equal amounts restart); before the deadline, while
\* a bid is missing, resolution changes nothing.
C4_MissingBids ==
  [][/\ ( /\ Changed
          /\ room.phase = "BIDDING"
          /\ DeadlinePassed(room, now)
          /\ last'.op \in {"getState", "submitBid"} )
          => LET p1 == PlayerAt(room, 1)
                 p2 == PlayerAt(room, 2)
                 a1 == EffectiveBid(room, p1)
                 a2 == EffectiveBid(room, p2)
             IN IF a1 = a2
                THEN /\ room'.phase = "BIDDING"
                     /\ room'.bids = EmptyMap
                     /\ room'.winnerId = NoPlayer
                ELSE /\ room'.phase = "COLOR_PICK"
                     /\ room'.bids[p1].amount = a1
                     /\ room'.bids[p2].amount = a2
                     /\ room'.winnerId = (IF a1 < a2 THEN p1 ELSE p2)
                     /\ room'.loserId = (IF a1 < a2 THEN p2 ELSE p1)
                     /\ room'.winningBidMs = (IF a1 < a2 THEN a1 ELSE a2)
                     /\ room'.losingBidMs = (IF a1 < a2 THEN a2 ELSE a1)
     /\ LET seen == DOMAIN room.bids
                      \cup (IF Changed /\ last'.op = "submitBid"
                            THEN {last'.by} ELSE {})
        IN ( /\ room.phase = "BIDDING"
             /\ now' = now
             /\ ~DeadlinePassed(room, now)
             /\ \E i \in 1..2 : PlayerAt(room, i) \notin seen )
             => /\ room'.phase = "BIDDING"
                /\ DOMAIN room'.bids = seen
                /\ room'.bidDeadline = room.bidDeadline
                /\ room'.winnerId = NoPlayer]_vars

\* A round was resolved after the deadline on a bid nobody submitted (no
\* bid amount a request carries equals mainTimeMs).
C4_Witness ==
  /\ room.phase = "COLOR_PICK"
  /\ last.drive = "resolved"
  /\ last.op \in {"getState", "submitBid"}
  /\ room.losingBidMs = room.mainTimeMs
  /\ room.winningBidMs < room.mainTimeMs
  /\ \A a \in BidAmounts : a /= room.mainTimeMs

\* C5: a successful chooseColor gives the chosen color a clock of
\* winningBidMs and the other color a clock of mainTimeMs, sets
\* clocks.turn = "white" and clocks.lastTickAt = now, makes drawOddsSide
\* the player holding black, and moves the room to PLAYING.
C5_ChooseColor ==
  [][(Changed /\ last'.op = "chooseColor" /\ last'.res = "ok")
       => LET c == last'.arg
              k == room'.clocks
          IN /\ room'.phase = "PLAYING"
             /\ k.present
             /\ (IF c = "white" THEN k.whiteRemainingMs
                 ELSE k.blackRemainingMs) = room.winningBidMs
             /\ (IF c = "white" THEN k.blackRemainingMs
                 ELSE k.whiteRemainingMs) = room.mainTimeMs
             /\ k.turn = "white"
             /\ k.lastTickAt = now
             /\ ColorOf(room'.colors, last'.by) = c
             /\ ColorOf(room'.colors, room'.drawOddsSide) = "black"]_vars

\* C6: when the game starts, the clock of the bid winner's side is
\* winningBidMs and the clock of the bid loser's side is mainTimeMs,
\* whichever of the two picked the color.
C6_WinnerPlaysBid ==
  [][(room.phase /= "PLAYING" /\ room'.phase = "PLAYING")
       => /\ ColorOf(room'.colors, room'.winnerId) /= "none"
               => ClockOf(room', room'.winnerId) = room'.winningBidMs
          /\ ColorOf(room'.colors, room'.loserId) /= "none"
               => ClockOf(room', room'.loserId) = room'.mainTimeMs]_vars

\* C7: in PLAYING, colors maps exactly two ids, one to "white" and one to
\* "black", and its keys are exactly the ids in players.
C7_ColorsArePlayers ==
  room.phase = "PLAYING"
    => /\ Len(room.colors) = 2
       /\ {room.colors[i].color : i \in 1..Len(room.colors)}
            = {"white", "black"}
       /\ {room.colors[i].id : i \in 1..Len(room.colors)} = PlayerIds(room)
       /\ Len(room.players) = 2

\* C8: while the clocks of a game exist, whiteRemainingMs + blackRemainingMs
\* is at most winningBidMs + mainTimeMs.
C8_ClockSumBounded ==
  (room.phase \in {"PLAYING", "FINISHED"} /\ room.clocks.present)
    => ClockSum(room) <= room.winningBidMs + room.mainTimeMs

\* A move was committed after time had passed, and the sum is below its cap.
C8_Witness ==
  /\ room.phase = "PLAYING"
  /\ Len(room.moves) >= 1
  /\ room.clocks.lastTickAt > clockStart
  /\ ClockSum(room) < room.winningBidMs + room.mainTimeMs

\* The replies of makeMove that commit a move.
CommitReplies ==
  {"ok", "checkmate", "stalemate", "insufficient_material", "draw"}

\* C9: after every committed move the sum of the two clocks has decreased
\* by exactly the time between the start of the clocks and this commit:
\* each interval between commits is charged once, rejected moves in
\* between included.
C9_ChargedOnce ==
  ( /\ last.op = "makeMove"
    /\ last.res \in CommitReplies
    /\ room.clocks.present
    /\ Len(room.moves) >= 1 )
    => ClockSum(room)
         = room.winningBidMs + room.mainTimeMs
             - (room.clocks.lastTickAt - clockStart)

\* The replies of makeMove that reject the move itself.
RejectReplies == {"invalid_move_format", "illegal_move"}

\* C10: a makeMove rejected with invalid_move_format or illegal_move leaves
\* the room as it was: clocks, moves, gameFen and every other field.
C10_RejectedMoveChangesNothing ==
  [][(last'.op = "makeMove" /\ last'.res \in RejectReplies)
       => room' = room]_vars

\* C11: when a unanimous yes resets a FINISHED room to LOBBY, bids, clocks,
\* moves, colors, winnerId, loserId and gameFen are cleared, and players,
\* mainTimeMs, bidDurationMs and choiceDurationMs are unchanged.
C11_RematchResetClears ==
  [][(room.phase = "FINISHED" /\ room'.phase = "LOBBY")
       => /\ room'.bids = EmptyMap
          /\ room'.clocks = NoClocks
          /\ room'.moves = <<>>
          /\ room'.colors = <<>>
          /\ room'.winnerId = NoPlayer
          /\ room'.loserId = NoPlayer
          /\ room'.gameFen = NoFen
          /\ room'.players = room.players
          /\ room'.mainTimeMs = room.mainTimeMs
          /\ room'.bidDurationMs = room.bidDurationMs
          /\ room'.choiceDurationMs = room.choiceDurationMs]_vars

\* C12: in every PLAYING state clocks.turn is the side to move in the
\* position the chess engine is constructed from (gameFen, or the initial
\* position when gameFen is unset), in every game of the room.
C12_TurnMatchesPosition ==
  room.phase = "PLAYING" => room.clocks.turn = room.gameFen.toMove

\* Whether the rematch window of r is open at t.
WindowOpen(r, t) ==
  r.phase = "FINISHED" /\ r.rematchWindowEnds /= NoTime
    /\ t <= r.rematchWindowEnds

\* Whether id has a recorded vote.
HasVoted(r, id) == r.rematchVotes /= NullVotes /\ id \in DOMAIN r.rematchVotes

\* C13: once a player has a recorded vote, any further rematch call by that
\* player, whatever `agree` it carries, leaves rematchVotes and every other
\* field of the room unchanged (nothing is saved, the index is not called),
\* and while the window is open the reply is already_voted.
C13_VoteIrreversible ==
  \A p \in Players, agree \in BOOLEAN :
    HasVoted(room, p)
      => LET o == HandleRematch(room, stored, now, p, agree)
         IN /\ o.room = room
            /\ o.stored = stored
            /\ o.calls = <<>>
            /\ WindowOpen(room, now) => o.res = "already_voted"

\* A player has voted yes, the window is open, and the same player's call
\* with agree = false is answered already_voted.
C13_Witness ==
  \E p \in Players :
    /\ WindowOpen(room, now)
    /\ HasVoted(room, p)
    /\ room.rematchVotes[p] = TRUE
    /\ last.op = "rematch"
    /\ HandleRematch(room, stored, now, p, FALSE).res = "already_voted"

\* The step recorded a rematch vote of `no`.
NoVoteRecorded ==
  /\ Changed
  /\ last'.op = "rematch"
  /\ last'.arg = "FALSE"
  /\ ~HasVoted(room, last'.by)
  /\ VotedAs(room'.rematchVotes, last'.by, FALSE)

\* C14: when a rematch vote of `no` is recorded in a FINISHED room within
\* the window, the room is closed at once with closeReason =
\* declined_rematch, it is no longer in the index, and every player who has
\* voted yes is in the queue bucket of the room's mainTimeMs.
C14_NoClosesAndRequeues ==
  [][NoVoteRecorded
       => /\ room'.closed
          /\ room'.closeReason = "declined_rematch"
          /\ room'.closedAt = now
          /\ ~index'.listed
          /\ \A q \in PlayerIds(room') :
               VotedAs(room'.rematchVotes, q, TRUE) => q \in Queued(index')]_vars

\* C15: when getState observes a FINISHED room whose rematch window has
\* expired without unanimous yes votes, the room is closed, with closeReason
\* = rematch_timeout when no player voted `no`; afterwards the room is absent
\* from the index and every yes-voter is in the queue bucket of the room's
\* mainTimeMs.
C15_WindowExpiryRequeues ==
  [][(Changed /\ last'.op = "getState" /\ RematchWindowExpired(room, now))
       => /\ room'.closed
          /\ ~AnyNo(room, room.rematchVotes) => room'.closeReason = "rematch_timeout"
          /\ ~index'.listed
          /\ \A q \in PlayerIds(room) :
               VotedAs(room.rematchVotes, q, TRUE) => q \in Queued(index')]_vars

StartStaged(r) == r.startRequestedBy /= NoPlayer /\ r.startConfirmDeadline /= NoTime

\* What startBidding by p does in the current state, when the room is a full
\* LOBBY room.
StartBiddingSteps ==
  \A p \in Players :
    (room.phase = "LOBBY" /\ Len(room.players) = room.maxPlayers) =>
      LET o == HandleStartBidding(room, stored, now, p)
      IN IF ~StartStaged(room)
         THEN /\ o.room.phase = "LOBBY"
              /\ o.room.startRequestedBy = p
              /\ o.room.startConfirmDeadline = now + room.choiceDurationMs
         ELSE IF p = room.startRequestedBy
         THEN /\ o.res = "already_requested"
              /\ o.room = room /\ o.stored = stored /\ o.calls = <<>>
         ELSE IF now <= room.startConfirmDeadline
         THEN o.res = "ok" /\ o.room.phase = "BIDDING"
         ELSE o.res = "start_request_expired" /\ o.room.phase = "LOBBY"

\* C17: startBidding is two-step. In a full LOBBY room the first call only
\* stages a request and the phase stays LOBBY; a repeat call by the requester
\* returns already_requested and changes nothing; a call by another player
\* after startConfirmDeadline returns start_request_expired and leaves the
\* phase LOBBY; and the room moves from LOBBY to BIDDING only by a
\* startBidding call of a player other than the requester, made no later
\* than startConfirmDeadline.
C17_StartBiddingTwoStep ==
  /\ []StartBiddingSteps
  /\ [][(room.phase = "LOBBY" /\ room'.phase = "BIDDING")
          => /\ last'.op = "startBidding"
             /\ StartStaged(room)
             /\ last'.by /= room.startRequestedBy
             /\ now <= room.startConfirmDeadline]_vars

\* A start staged by one player has just been confirmed by the other.
C17_Witness ==
  /\ last.op = "startBidding"
  /\ room.phase = "BIDDING"
  /\ room.bidDeadline = now + room.bidDurationMs
  /\ ~StartStaged(room)

\* The step is a getState that found choiceDeadline passed in COLOR_PICK.
PickTimedOut ==
  /\ Changed
  /\ last'.op = "getState"
  /\ room.phase = "COLOR_PICK"
  /\ room.choiceDeadline /= NoTime
  /\ now > room.choiceDeadline

\* What such a getState does: one more attempt; on the first three the pick
\* passes to the other of winner and loser with a later deadline, on the
\* fourth the room is FINISHED with no winner.
PickRotation ==
  PickTimedOut
    => /\ room'.choiceAttempts = room.choiceAttempts + 1
       /\ IF room.choiceAttempts < 3
          THEN /\ room'.phase = "COLOR_PICK"
               /\ {room.currentPicker, room'.currentPicker} = {"winner", "loser"}
               /\ room'.choiceDeadline = now + room.choiceDurationMs
               /\ room'.choiceDeadline > room.choiceDeadline
          ELSE /\ room'.phase = "FINISHED"
               /\ room'.winnerId = NoPlayer

\* C18 as stated: the rotation above, and in every reachable state
\* 0 <= choiceAttempts < 4.
C18_PickRotation_Original ==
  /\ [][PickRotation]_vars
  /\ [](0 <= room.choiceAttempts /\ room.choiceAttempts < 4)

\* C18: each getState that finds choiceDeadline passed in COLOR_PICK
\* increments choiceAttempts; on the first three timeouts currentPicker
\* toggles between winner and loser and choiceDeadline is extended, on the
\* fourth the room becomes FINISHED with winnerId = null; in every reachable
\* state 0 <= choiceAttempts <= 4, below 4 in every phase but FINISHED, and 4
\* only in a room that has no winner.
C18_PickRotation ==
  /\ [][PickRotation]_vars
  /\ [](/\ 0 <= room.choiceAttempts
        /\ room.choiceAttempts <= MaxChoiceAttempts
        /\ room.choiceAttempts = MaxChoiceAttempts
             => room.phase = "FINISHED" /\ room.winnerId = NoPlayer)

\* A getState has counted the fourth timeout and finished the room as a draw.
C18_Witness ==
  /\ last.op = "getState"
  /\ room.choiceAttempts = 4
  /\ room.phase = "FINISHED"
  /\ room.winnerId = NoPlayer
  /\ room.currentPicker = "loser"

\* makeMove by a player whose color is not clocks.turn is answered
\* not_your_turn and writes nothing.
OutOfTurnRejected ==
  \A p \in Players, outcome \in MoveOutcomes,
     opponentNonKing \in BoardsFor(room) :
    (/\ room.phase = "PLAYING"
     /\ ColorOf(room.colors, p) /= "none"
     /\ ColorOf(room.colors, p) /= room.clocks.turn)
      => LET o == HandleMakeMove(room, stored, now, p, outcome, opponentNonKing)
         IN /\ o.res = "not_your_turn"
            /\ o.room = room /\ o.stored = stored /\ o.calls = <<>>

\* An accepted move that does not end the game appends one entry, stamps
\* lastTickAt and passes the turn.
AcceptedMoveCommits ==
  (Changed /\ last'.op = "makeMove" /\ last'.res = "ok")
    => /\ room'.moves = Append(room.moves, [by |-> last'.by, at |-> now])
       /\ room'.clocks.lastTickAt = now
       /\ room'.clocks.turn = OtherColor(room.clocks.turn)
       /\ room'.phase = "PLAYING"

\* Consecutive entries of moves are by different players and no entry is
\* earlier than the one before it.
MovesAlternate ==
  \A i \in 1..(Len(room.moves) - 1) :
    /\ room.moves[i].by /= room.moves[i + 1].by
    /\ room.moves[i].at <= room.moves[i + 1].at

RemainingAfterDeduct(r, p, t) ==
  LET c == DeductElapsed(r.clocks, ColorOf(r.colors, p), t)
  IN IF ColorOf(r.colors, p) = "white" THEN c.whiteRemainingMs
     ELSE c.blackRemainingMs

\* C20: on a makeMove where the mover's remaining time after deducting the
\* elapsed time is <= 0, no move is appended and the room becomes FINISHED;
\* winnerId is the opponent (result time_forfeit) if and only if the
\* opponent has a queen, rook or pawn or at least two non-king pieces;
\* otherwise winnerId is null (timeout_but_opponent_cannot_mate).
C20_FlagFallResult ==
  \A p \in Players, outcome \in MoveOutcomes,
     opponentNonKing \in BoardsFor(room) :
    (/\ room.phase = "PLAYING"
     /\ ColorOf(room.colors, p) = room.clocks.turn
     /\ RemainingAfterDeduct(room, p, now) <= 0)
      => LET o == HandleMakeMove(room, stored, now, p, outcome, opponentNonKing)
             opponent == KeyWithColor(room.colors,
                                      OtherColor(ColorOf(room.colors, p)))
             material ==
               \/ \E i \in 1..Len(opponentNonKing) :
                    opponentNonKing[i] \in {"q", "r", "p"}
               \/ Len(opponentNonKing) >= 2
         IN /\ o.room.moves = room.moves
            /\ o.room.phase = "FINISHED"
            /\ IF material
               THEN o.res = "time_forfeit" /\ o.room.winnerId = opponent
               ELSE /\ o.res = "timeout_but_opponent_cannot_mate"
                    /\ o.room.winnerId = NoPlayer

\* C21: every transition of a room into FINISHED (checkmate, draw,
\* flag-fall, color-pick timeout draw, disconnect forfeit) sets
\* rematchWindowEnds to a future timestamp, sets rematchVotes to the empty
\* map and freezes the clocks (frozenAt set when clocks exist); there is no
\* FINISHED state with rematchWindowEnds unset.
C21_FinishedOpensWindow ==
  /\ [][(room.phase /= "FINISHED" /\ room'.phase = "FINISHED")
          => /\ room'.rematchWindowEnds /= NoTime
             /\ room'.rematchWindowEnds > now
             /\ room'.rematchVotes = EmptyMap
             /\ room'.clocks.present => room'.clocks.frozenAt /= NoTime]_vars
  /\ [](room.phase = "FINISHED" => room.rematchWindowEnds /= NoTime)

\* C22: the rematch window opened by a terminal transition in makeMove lasts
\* 60 s (rematchWindowEnds = now + 60000) for checkmate, engine-detected
\* draws and time forfeit with mate possible, and 10 s for a flag-fall
\* resolved as a draw because the opponent cannot mate.
C22_WindowLength ==
  [][(Changed /\ last'.op = "makeMove"
        /\ room.phase = "PLAYING" /\ room'.phase = "FINISHED")
       => room'.rematchWindowEnds
            = now + (IF last'.res = "timeout_but_opponent_cannot_mate"
                     THEN 10000 ELSE 60000)]_vars

\* C23: disconnect tracking starts (disconnectedPlayerId and disconnectStart
\* become set) only inside a getState on a room in PLAYING, only when no
\* disconnect is already tracked and now - updatedAt > 10 s, and the player
\* marked is the one whose color is not clocks.turn.
C23_DisconnectDetection ==
  [][(\/ room.disconnectedPlayerId = NoPlayer
           /\ room'.disconnectedPlayerId /= NoPlayer
      \/ room.disconnectStart = NoTime /\ room'.disconnectStart /= NoTime)
       => /\ last'.op = "getState"
          /\ room.phase = "PLAYING"
          /\ room.disconnectedPlayerId = NoPlayer
          /\ room.disconnectStart = NoTime
          /\ now - room.updatedAt > 10000
          /\ room'.disconnectStart = now
          /\ ColorOf(room.colors, room'.disconnectedPlayerId)
               = OtherColor(room.clocks.turn)]_vars

\* A getState has just marked the side that is not to move.
C23_Witness ==
  /\ last.op = "getState"
  /\ room.phase = "PLAYING"
  /\ room.disconnectedPlayerId /= NoPlayer
  /\ room.disconnectStart = now
  /\ ColorOf(room.colors, room.disconnectedPlayerId) /= room.clocks.turn

\* A disconnect is tracked in r and its timeout has elapsed at t.
DisconnectTimedOut(r, t) ==
  /\ r.disconnectedPlayerId /= NoPlayer
  /\ r.disconnectStart /= NoTime
  /\ t - r.disconnectStart > r.disconnectTimeoutMs

C25_StaleRoomExpires ==
  (room.updatedAt /= NoTime /\ now - room.updatedAt > 300000)
    => LET o == HandleGetState(room, stored, now)
       IN /\ o.res = "room_expired"
          /\ ~o.stored.exists
          /\ ~IndexAfter(index, o.calls, now).listed

\* C26: after a join is rejected with room_too_old, the room has no entry in
\* the index directory.
C26_TooOldLeavesIndex ==
  [][(Changed /\ last'.op = "join" /\ last'.res = "room_too_old")
       => ~index'.listed]_vars

\* ---------------------------------------------------------------------
\* C27: after any addToQueue, joinAll, heartbeat, stale cleanup or
\* removeFromAllQueues, no bucket holds the same playerId twice.
C27_NoDuplicateInBucket ==
  \A tc \in TimeControlSet :
    \A i, j \in 1..Len(queues[tc]) :
      queues[tc][i].playerId = queues[tc][j].playerId => i = j

\* A bucket of three players, one of whom was added again after the clock
\* moved (the entry kept its joinedAt and its place).
C27_Witness ==
  \E tc \in TimeControlSet :
    /\ Len(queues[tc]) = Cardinality(MatchPlayers)
    /\ \E i \in 1..Len(queues[tc]) :
         queues[tc][i].lastHeartbeat > queues[tc][i].joinedAt

\* ---------------------------------------------------------------------
\* The rooms created by matchmaking that are neither FINISHED nor closed and
\* seat the player.
ActiveRoomsOf(id) ==
  {i \in 1..Len(gameRooms) :
     /\ gameRooms[i].phase /= "FINISHED"
     /\ ~gameRooms[i].closed
     /\ id \in IdsOf(gameRooms[i].players)}

InSomeBucket(id) == \E tc \in TimeControlSet : InBucket(queues[tc], id)

\* C28: whenever checkMatch(playerId) answers matched: true, the player is
\* in the players list of exactly one active (not FINISHED, not closed) room
\* and in no queue bucket, at every point of every interleaving.
C28_MatchedMeansOneActiveRoom ==
  \A p \in MatchPlayers :
    IndexCheckMatch(rooms, queues, p).matched =>
      /\ Cardinality(ActiveRoomsOf(p)) = 1
      /\ ~InSomeBucket(p)

\* ---------------------------------------------------------------------
\* The position of a player in a bucket, in join order.
PlaceIn(q, id) == FirstIndexOf(q, id)

\* The directive names two players of the bucket, and every other player of
\* the bucket stands behind them and joined no earlier than they did.
NamesTwoEarliest(q, d) ==
  /\ Len(d) = 2
  /\ d[1] /= d[2]
  /\ \A n \in 1..2 : InBucket(q, d[n])
  /\ \A n \in 1..2 : \A k \in 1..Len(q) :
       q[k].playerId \notin IdsOf(d) =>
         /\ k > PlaceIn(q, d[n])
         /\ q[k].joinedAt >= q[PlaceIn(q, d[n])].joinedAt

\* Whatever addToQueue is asked next, a bucket it leaves with two or more
\* players gets a directive for its two earliest-joined players.
DirectiveIsFifo ==
  \A p \in MatchPlayers, tc \in TimeControlSet :
    LET qs == IndexAddToQueue(queues, p, tc, now)
    IN Len(qs[tc]) >= 2 => NamesTwoEarliest(qs[tc], Directive(qs, tc))

\* The last step of a queue-join flow: /removeFromAllQueues is posted and
\* the caller is answered.
FlowCompletes(p) ==
  /\ flows[p].stage = "remove"
  /\ flows'[p].stage = "idle"

MatchedLeaveAllBuckets ==
  \A p \in MatchPlayers :
    FlowCompletes(p) =>
      \A id \in IdsOf(flows[p].queuedPlayers) :
        \A tc \in TimeControlSet : ~InBucket(queues'[tc], id)

\* C29: when addToQueue leaves a bucket with two or more players, the
\* directive names the two earliest-joined players of that bucket (FIFO),
\* and once the Router's queue-join flow for that directive has completed,
\* both matched players are in no bucket of any time control.
C29_FifoAndRemoval == []DirectiveIsFifo /\ [][MatchedLeaveAllBuckets]_vars

\* Every flow has completed: the first room seats two players who are in
\* no bucket, while another player, who joined after the clock moved, is
\* still queued.
C29_Witness ==
  /\ \A p \in MatchPlayers : flows[p].stage = "idle"
  /\ Len(gameRooms) >= 1
  /\ Len(gameRooms[1].players) = 2
  /\ \A id \in IdsOf(gameRooms[1].players) : ~InSomeBucket(id)
  /\ \E tc \in TimeControlSet : \E k \in 1..Len(queues[tc]) :
       /\ queues[tc][k].playerId \notin IdsOf(gameRooms[1].players)
       /\ queues[tc][k].joinedAt > StartNow

\* ---------------------------------------------------------------------
\* C30: heartbeat(playerId) refreshes lastHeartbeat in every bucket that
\* contains the player, so that a player queued in several buckets who keeps
\* sending heartbeats is dropped from none of them by the stale cleanup.
C30_HeartbeatRefreshesAll ==
  \A p \in MatchPlayers :
    LET qs == IndexHeartbeat(queues, p, now)
    IN \A tc \in TimeControlSet :
         InBucket(qs[tc], p) =>
           qs[tc][FirstIndexOf(qs[tc], p)].lastHeartbeat = now

\* ---------------------------------------------------------------------
\* C35: under every interleaving of the Router's queue-join flows with
\* three or more players joining the same bucket, matchmaking seeds no
\* player into the players list of more than one room.
C35_SeededIntoOneRoom ==
  \A p \in MatchPlayers : Cardinality(ActiveRoomsOf(p)) <= 1

\* ---------------------------------------------------------------------
\* The room a completing flow names in its answer.
AnsweredRoom(p) ==
  gameRooms[CHOOSE i \in 1..Len(gameRooms) :
              gameRooms[i].roomId = flows[p].roomId]

\* C36: whenever the queue-join flow answers a caller with {roomId, room},
\* the caller is one of the players seeded into that room and is no longer
\* in any queue bucket, whatever the buckets held when the caller joined.
C36_AnswerSeatsCaller ==
  [][\A p \in MatchPlayers :
       FlowCompletes(p) =>
         /\ p \in IdsOf(AnsweredRoom(p).players)
         /\ \A tc \in TimeControlSet : ~InBucket(queues'[tc], p)]_vars

\* ---------------------------------------------------------------------
\* C37: once a room has closed = true, closed stays true and the phase
\* never changes again, whatever operations follow.
C37_ClosedIsFinal ==
  [][room.closed => (room'.closed /\ room'.phase = room.phase)]_vars

\* ---------------------------------------------------------------------
\* C38: once a join has been rejected with room_too_old, a join that
\* follows it with no other operation in between is rejected as well
\* (room_too_old or room_closed) and adds no player.
C38_TooOldStaysRejected ==
  [][(/\ last.op = "join"
      /\ last.res = "room_too_old"
      /\ last'.op = "join"
      /\ room' /= room)
       => (/\ last'.res \in {"room_too_old", "room_closed"}
           /\ room'.players = room.players)]_vars

\* ---------------------------------------------------------------------
\* C40: whenever a room enters PLAYING, disconnectedPlayerId and
\* disconnectStart are null, also in a game started after a rematch whose
\* previous game ended while a disconnect was tracked.
C40_PlayingStartsUntracked ==
  [][(room.phase /= "PLAYING" /\ room'.phase = "PLAYING")
       => (/\ room'.disconnectedPlayerId = NoPlayer
           /\ room'.disconnectStart = NoTime)]_vars

HasActiveGame(tc) ==
  \E i \in 1..Len(rooms) :
    /\ rooms[i].phase = "PLAYING"
    /\ rooms[i].mainTimeMs = tc
    /\ Len(rooms[i].players) = 2

\* What a status call made now would report for a time control.
ReportedNow(tc) == EstimateFor(rooms, queues, anchors, tc, now)

\* match_now exactly when somebody waits in the bucket; with an empty
\* bucket, none exactly when the time control has no active game.
EstimateTypes ==
  \A tc \in TimeControlSet :
    /\ ReportedNow(tc).type = "match_now" <=> Len(queues[tc]) >= 1
    /\ Len(queues[tc]) = 0 =>
         (ReportedNow(tc).type = "none" <=> ~HasActiveGame(tc))

\* A countdown for the game that is already anchored reports the anchor's
\* startTime and durationMs.
AnchorReported ==
  \A tc \in TimeControlSet :
    (/\ anchors[tc] /= NoAnchor
     /\ ReportedNow(tc).type = "countdown"
     /\ ReportedNow(tc).anchor.gameId = anchors[tc].gameId)
      => /\ ReportedNow(tc).startTime = anchors[tc].startTime
         /\ ReportedNow(tc).durationMs = anchors[tc].durationMs

\* A status call that keeps the anchored game keeps its anchor.
AnchorKept ==
  \A tc \in TimeControlSet :
    (anchors[tc] /= NoAnchor /\ anchors'[tc].gameId = anchors[tc].gameId)
      => anchors'[tc] = anchors[tc]

\* C31: for each time control the estimate is match_now if and only if its
\* bucket holds at least one waiting player; otherwise it is none if and
\* only if the index holds no PLAYING room with that mainTimeMs and two
\* players; and while the same game stays the anchored game the reported
\* startTime and durationMs do not change between status calls.
C31_Estimates ==
  /\ []EstimateTypes
  /\ []AnchorReported
  /\ [][AnchorKept]_vars

\* A game was anchored at an earlier time, its clocks have moved since, the
\* bucket is empty, and a status call now still counts down for that game.
C31_Witness ==
  \E tc \in TimeControlSet :
    /\ anchors[tc] /= NoAnchor
    /\ anchors[tc].startTime < now
    /\ ReportedNow(tc).type = "countdown"
    /\ ReportedNow(tc).anchor.gameId = anchors[tc].gameId
    /\ MinPlayerTime(rooms[ShortestGame(rooms, tc)]) /= anchors[tc].durationMs

\* ---------------------------------------------------------------------
\* C34: every change of room state made by an operation is followed by a
\* put (and, after the put, a broadcast) before the operation replies, so
\* that no operation leaves the in-memory room different from the
\* persisted record.
C34_ChangeIsPersisted ==
  [][room' /= room => (stored'.exists /\ stored'.rec = room')]_vars

(* ------------------------------------------------------------------ *)
(* Faults: a rejecting storage.put, an unreachable RoomIndex           *)
(* ------------------------------------------------------------------ *)

\* GameRoom._save when storage.put rejects: updatedAt is stamped before
\* the put, and the rejection leaves _save before the broadcast and the
\* index update.  It leaves the handler too, and fetch, whose try block
\* returns the handler's promise without awaiting it.
SaveFails(r, s, t) == Out(Save(r, t), s, "put_failed")

\* _handleJoin gets as far as adding the player, and its put rejects.
JoinPutFails ==
  \E p \in Players :
    /\ ~(room.updatedAt /= NoTime /\ (now - room.updatedAt) > RoomTooOldMs)
    /\ ~room.closed
    /\ room.phase = "LOBBY"
    /\ p \notin PlayerIds(room)
    /\ Len(room.players) < room.maxPlayers
    /\ Apply("join", p, "none",
             SaveFails([room EXCEPT !.players = Append(@, p)], stored, now))

\* _handleSubmitBid gets as far as recording the bid, and its put rejects:
\* _resolveBidsIfNeeded is not reached.
SubmitBidPutFails ==
  \E p \in Players, a \in BidAmounts :
    /\ room.phase = "BIDDING"
    /\ p \in PlayerIds(room)
    /\ ~(a < 0 \/ a > room.mainTimeMs)
    /\ ~(room.bidDeadline /= NoTime /\ now > room.bidDeadline)
    /\ p \notin DOMAIN room.bids
    /\ Apply("submitBid", p, ToString(a),
             SaveFails([room EXCEPT !.bids = Put(@, p, [amount |-> a])],
                       stored, now))

\* A variant of IndexDown in which a failed call to the RoomIndex is not
\* caught and becomes the reply.
IndexDown_Throws(o) ==
  IF o.calls = <<>> THEN o
  ELSE [o EXCEPT !.calls = <<>>, !.res = "index_failed"]

\* The RoomIndex cannot be reached during a request: every fetch to it is
\* inside a try whose catch swallows the failure, so the handler goes on
\* and the index learns nothing.
IndexDown(o) == [o EXCEPT !.calls = <<>>]

JoinIndexDownBy(p) ==
  /\ HandleJoin(room, stored, now, p).calls /= <<>>
  /\ Apply("join", p, "none", IndexDown(HandleJoin(room, stored, now, p)))

StartBiddingIndexDownBy(p) ==
  /\ HandleStartBidding(room, stored, now, p).calls /= <<>>
  /\ Apply("startBidding", p, "none",
           IndexDown(HandleStartBidding(room, stored, now, p)))

SubmitBidIndexDownBy(p, a) ==
  /\ HandleSubmitBid(room, stored, now, p, a).calls /= <<>>
  /\ Apply("submitBid", p, ToString(a),
           IndexDown(HandleSubmitBid(room, stored, now, p, a)))

JoinIndexDown == \E p \in Players : JoinIndexDownBy(p)

StartBiddingIndexDown == \E p \in Players : StartBiddingIndexDownBy(p)

SubmitBidIndexDown ==
  \E p \in Players, a \in BidAmounts : SubmitBidIndexDownBy(p, a)

NextFaults ==
  \/ Tick
  \/ InitRoom
  \/ JoinRoom
  \/ StartBidding
  \/ SubmitBid
  \/ GetState
  \/ JoinPutFails
  \/ SubmitBidPutFails
  \/ JoinIndexDown
  \/ StartBiddingIndexDown
  \/ SubmitBidIndexDown

SpecFaults == Init /\ [][NextFaults]_vars

\* C32: when the durable put of a room operation fails, the in-memory room
\* after the failed operation equals the room before it.
C32_FailedPutLeavesRoom ==
  [][(last' /= last /\ last'.res = "put_failed") => room' = room]_vars

\* The request got the reply, and left the room and the record, that the
\* handler gives when the RoomIndex answers; the record is the room.
SameAsIndexUp(o) ==
  /\ room' = o.room
  /\ stored' = o.stored
  /\ stored'.exists /\ stored'.rec = room'
  /\ last'.res = o.res
  /\ last'.drive = o.drive

====
